---- MODULE Spec2Model ----
(***************************************************************************)
(* Model of custom_components/dess_monitor/api/helpers.py: the nested      *)
(* structure matcher resolve_param, the alias-priority sensor lookups       *)
(* get_sensor_value_simple / get_sensor_value_simple_entry, the control     *)
(* schema resolver resolve_ctrl_field_id and the output-priority            *)
(* read/write flows with their external collaborators.                      *)
(***************************************************************************)
EXTENDS Integers, Sequences, FiniteSets, TLC

VARIABLES
    data,         \* the tree / device snapshot handed to the resolvers
    ctrl_fields,  \* the control-field schema handed to the orchestrator (Null = None)
    device_data,  \* the device identity: a mapping carrying devcode
    collab,       \* module globals set_ctrl_device_param, get_device_ctrl_value,
                  \* send_device_direct_command: TRUE = bound, FALSE = None
    pc,           \* position of the one call in progress
    req,          \* the call in progress: its name and arguments
    result,       \* what the finished call gave its caller
    calls,        \* collaborator calls issued by the call in progress, in order
    caught        \* exceptions the call in progress caught and dropped, in order

vars == <<data, ctrl_fields, device_data, collab, pc, req, result, calls, caught>>

-----------------------------------------------------------------------------
(* JSON-like values.  Every value is a record of one shape:                 *)
(*   t    : "null" | "str" | "num" | "dict" | "list"                        *)
(*   s    : the text of a str                                               *)
(*   n    : the value of a num                                              *)
(*   keys : the keys of a dict, in insertion order                          *)
(*   kids : the values of a dict (aligned with keys) or the items of a list *)

Null == [t |-> "null", s |-> "", n |-> 0, keys |-> <<>>, kids |-> <<>>]

Str(x) == [t |-> "str", s |-> x, n |-> 0, keys |-> <<>>, kids |-> <<>>]

Num(k) == [t |-> "num", s |-> "", n |-> k, keys |-> <<>>, kids |-> <<>>]

Dict(ks, vs) == [t |-> "dict", s |-> "", n |-> 0, keys |-> ks, kids |-> vs]

List(vs) == [t |-> "list", s |-> "", n |-> 0, keys |-> <<>>, kids |-> vs]

EmptyDict == Dict(<<>>, <<>>)

\* key in d
Has(d, k) == d.t = "dict" /\ \E i \in 1..Len(d.keys) : d.keys[i] = k

\* d.get(k, dflt)
GetOr(d, k, dflt) ==
    IF Has(d, k)
    THEN d.kids[CHOOSE i \in 1..Len(d.keys) : d.keys[i] = k]
    ELSE dflt

\* d.get(k)
Get(d, k) == GetOr(d, k, Null)

\* bool(v): None, "", 0, {} and [] are falsy
Truthy(v) ==
    CASE v.t = "null" -> FALSE
      [] v.t = "str"  -> v.s /= ""
      [] v.t = "num"  -> v.n /= 0
      [] OTHER        -> Len(v.kids) > 0

\* a or b
Or(a, b) == IF Truthy(a) THEN a ELSE b

\* str.lower() on the strings of the model
Lower(s) ==
    CASE s = "Battery_Current"            -> "battery_current"
      [] s = "BT_EYBOND_READ_29"          -> "bt_eybond_read_29"
      [] s = "Battery Current"            -> "battery current"
      [] s = "Battery Voltage"            -> "battery voltage"
      [] s = "BSE_EYBOND_CTRL_49"         -> "bse_eybond_ctrl_49"
      [] s = "Output priority"            -> "output priority"
      [] s = "Other"                      -> "other"
      [] OTHER                            -> s

\* a == b on values: dicts compare as mappings (order of keys is irrelevant),
\* lists item by item, scalars by type and value
RECURSIVE PyEq(_, _)
PyEq(a, b) ==
    CASE a.t /= b.t    -> FALSE
      [] a.t = "null"  -> TRUE
      [] a.t = "str"   -> a.s = b.s
      [] a.t = "num"   -> a.n = b.n
      [] a.t = "list"  -> /\ Len(a.kids) = Len(b.kids)
                          /\ \A i \in 1..Len(a.kids) : PyEq(a.kids[i], b.kids[i])
      [] OTHER         -> /\ Len(a.keys) = Len(b.keys)
                          /\ \A i \in 1..Len(a.keys) :
                                /\ Has(b, a.keys[i])
                                /\ PyEq(a.kids[i], Get(b, a.keys[i]))

-----------------------------------------------------------------------------
(* resolve_param                                                            *)

\* one condition mapping against one mapping node (AND over its fields)
MatchesOne(item, condition, case_insensitive) ==
    \A i \in 1..Len(condition.keys) :
        /\ Has(item, condition.keys[i])
        /\ LET item_val == Get(item, condition.keys[i])
               value    == condition.kids[i]
           IN IF case_insensitive /\ item_val.t = "str" /\ value.t = "str"
              THEN Lower(item_val.s) = Lower(value.s)
              ELSE PyEq(item_val, value)

\* OR mode if where is a list; AND mode if it is a dict; nothing else matches
_matches_conditions(item, where, case_insensitive) ==
    CASE where.t = "list" ->
            \E j \in 1..Len(where.kids) :
                /\ where.kids[j].t = "dict"
                /\ MatchesOne(item, where.kids[j], case_insensitive)
      [] where.t = "dict" -> MatchesOne(item, where, case_insensitive)
      [] OTHER            -> FALSE

\* The value of a call is bound once, as the code makes the call once:
\*   CHOOSE out \in { e(r) : r \in {call} } : TRUE   is   r = call; out = e(r).

\* a buggy descent: the children of a node are visited last to first
RECURSIVE SearchEachReversed(_, _, _, _, _, _)
RECURSIVE _search(_, _, _, _, _)
SearchEachReversed(kids, i, where, case_insensitive, find_all, found) ==
    IF i > Len(kids)
    THEN [found |-> found, ret |-> FALSE]
    ELSE IF kids[Len(kids) + 1 - i].t \in {"dict", "list"}
         THEN CHOOSE out \in
                { IF r.ret /\ ~find_all
                  THEN [found |-> r.found, ret |-> TRUE]
                  ELSE SearchEachReversed(kids, i + 1, where, case_insensitive,
                                          find_all, r.found) :
                  r \in {_search(kids[Len(kids) + 1 - i], where, case_insensitive,
                                 find_all, found)} } : TRUE
         ELSE SearchEachReversed(kids, i + 1, where, case_insensitive,
                                 find_all, found)

\* the two for loops of _search: children i, i+1, ... of a node, in order;
\* only mappings and sequences are descended into
RECURSIVE SearchEach(_, _, _, _, _, _)
SearchEach(kids, i, where, case_insensitive, find_all, found) ==
    IF i > Len(kids)
    THEN [found |-> found, ret |-> FALSE]
    ELSE IF kids[i].t \in {"dict", "list"}
         THEN CHOOSE out \in
                { IF r.ret /\ ~find_all
                  THEN [found |-> r.found, ret |-> TRUE]
                  ELSE SearchEach(kids, i + 1, where, case_insensitive,
                                  find_all, r.found) :
                  r \in {_search(kids[i], where, case_insensitive,
                                 find_all, found)} } : TRUE
         ELSE SearchEach(kids, i + 1, where, case_insensitive, find_all, found)

\* _search(current) with the nonlocal list found threaded through:
\* gives the list after the visit and the value returned
_search(current, where, case_insensitive, find_all, found) ==
    CASE current.t = "dict" ->
            CHOOSE out \in
              { IF m /\ ~find_all
                THEN [found |-> Append(found, current), ret |-> TRUE]
                ELSE SearchEach(current.kids, 1, where, case_insensitive, find_all,
                                IF m THEN Append(found, current) ELSE found) :
                m \in {_matches_conditions(current, where, case_insensitive)} } : TRUE
      [] current.t = "list" ->
            SearchEach(current.kids, 1, where, case_insensitive, find_all, found)
      [] OTHER -> [found |-> found, ret |-> FALSE]

\* for key in root_keys: if key in data: _search(data[key])
RECURSIVE SearchRoots(_, _, _, _, _, _, _)
SearchRoots(tree, root_keys, i, where, case_insensitive, find_all, found) ==
    IF i > Len(root_keys.kids)
    THEN found
    ELSE CHOOSE out \in
           { SearchRoots(tree, root_keys, i + 1, where, case_insensitive,
                         find_all, f1) :
             f1 \in { IF root_keys.kids[i].t = "str" /\ Has(tree, root_keys.kids[i].s)
                      THEN _search(Get(tree, root_keys.kids[i].s), where,
                                   case_insensitive, find_all, found).found
                      ELSE found } } : TRUE

\* root_keys is Null (None) or a list of strings
resolve_param(tree, where, case_insensitive, find_all, default, root_keys) ==
    CHOOSE out \in
      { IF find_all
        THEN IF found /= <<>> THEN List(found) ELSE default
        ELSE IF found /= <<>> THEN found[1] ELSE default :
        found \in { IF root_keys.t /= "null" /\ tree.t = "dict"
                    THEN SearchRoots(tree, root_keys, 1, where, case_insensitive,
                                     find_all, <<>>)
                    ELSE _search(tree, where, case_insensitive, find_all,
                                 <<>>).found } } : TRUE

-----------------------------------------------------------------------------
(* Calls of the pure resolvers: one action per function, the arguments      *)
(* drawn from small sets, the returned value kept in result.                *)

NoReq == [op |-> "none"]

SeqsUpTo(S, k) == UNION {[1..m -> S] : m \in 0..k}

\* bound: longest sequence under one node of a generated tree
MaxKids == 2

IdNode(x, tag) == Dict(<<"id", "tag">>, <<Str(x), Num(tag)>>)

SearchLeaves ==
    { Str("Other"),
      IdNode("Battery_Current", 1),
      IdNode("battery_current", 2) }

SearchMid ==
    SearchLeaves
    \cup { List(s) : s \in SeqsUpTo(SearchLeaves, MaxKids) }
    \cup { Dict(<<"id", "tag", "sub">>, <<Str(x), Num(3), c>>) :
             x \in {"Battery_Current", "Other"}, c \in SearchLeaves }
    \cup { Dict(<<"sub">>, <<List(<<c>>)>>) : c \in SearchLeaves }

SearchTrees ==
    { Dict(<<"a", "b">>, <<m1, m2>>) : m1 \in SearchMid, m2 \in SearchLeaves }
    \cup { Dict(<<"id", "a", "b">>, <<Str("Battery_Current"), m1, m2>>) :
             m1 \in SearchMid, m2 \in SearchLeaves }
    \cup { List(<<m1, m2>>) : m1 \in SearchMid, m2 \in SearchLeaves }

SearchWheres ==
    { Dict(<<"id">>, <<Str("Battery_Current")>>),
      Dict(<<"id">>, <<Str("Missing")>>),
      Dict(<<"id", "tag">>, <<Str("battery_current"), Num(2)>>),
      List(<<Dict(<<"tag">>, <<Num(1)>>), Str("Other"),
             Dict(<<"tag">>, <<Num(3)>>)>>) }

SearchRootKeys ==
    { Null,
      List(<<Str("a")>>),
      List(<<Str("a"), Str("b")>>),
      List(<<Str("b"), Str("a")>>),
      List(<<Str("a"), Str("a")>>),
      List(<<Str("c")>>) }

SearchDefaults == { Null, Str("default") }

CallResolveParam ==
    /\ pc = "idle"
    /\ \E where \in SearchWheres, ci \in BOOLEAN, find_all \in BOOLEAN,
          default \in SearchDefaults, root_keys \in SearchRootKeys :
          /\ req' = [op |-> "resolve_param", where |-> where,
                     case_insensitive |-> ci, find_all |-> find_all,
                     default |-> default, root_keys |-> root_keys]
          /\ result' = resolve_param(data, where, ci, find_all, default, root_keys)
    /\ pc' = "done"
    /\ UNCHANGED <<data, ctrl_fields, device_data, collab, calls, caught>>

\* the caller takes the result; the next call may start
Return ==
    /\ pc = "done"
    /\ pc' = "idle"
    /\ req' = NoReq
    /\ result' = Null
    /\ calls' = <<>>
    /\ caught' = <<>>
    /\ UNCHANGED <<data, ctrl_fields, device_data, collab>>

AllBound == [set |-> TRUE, get |-> TRUE, direct |-> TRUE]

InitSearch ==
    /\ data \in SearchTrees
    /\ ctrl_fields = Null
    /\ device_data = EmptyDict
    /\ collab = AllBound
    /\ pc = "idle"
    /\ req = NoReq
    /\ result = Null
    /\ calls = <<>>
    /\ caught = <<>>

NextSearch == CallResolveParam \/ Return

SpecSearch == InitSearch /\ [][NextSearch]_vars

-----------------------------------------------------------------------------
(* Document order, stated on paths: a path is the sequence of child         *)
(* positions leading from the root to a node; p comes before q when p is a  *)
(* proper prefix of q or p is smaller at the first position they differ.    *)

RECURSIVE Paths(_)
Paths(node) ==
    {<<>>} \cup UNION { { <<i>> \o p : p \in Paths(node.kids[i]) } :
                        i \in 1..Len(node.kids) }

RECURSIVE NodeAt(_, _)
NodeAt(node, p) == IF p = <<>> THEN node ELSE NodeAt(node.kids[p[1]], Tail(p))

RECURSIVE PathBefore(_, _)
PathBefore(p, q) ==
    CASE p = <<>>    -> q /= <<>>
      [] q = <<>>    -> FALSE
      [] p[1] = q[1] -> PathBefore(Tail(p), Tail(q))
      [] OTHER       -> p[1] < q[1]

RECURSIVE SortPaths(_)
SortPaths(S) ==
    IF S = {}
    THEN <<>>
    ELSE LET m == CHOOSE p \in S : \A q \in S \ {p} : PathBefore(p, q)
         IN <<m>> \o SortPaths(S \ {m})

MatchingPaths(tree, where, ci) ==
    { p \in Paths(tree) : /\ NodeAt(tree, p).t = "dict"
                          /\ _matches_conditions(NodeAt(tree, p), where, ci) }

\* the matching mapping nodes of a tree, a node before its descendants,
\* siblings in insertion/list order
DocOrderMatches(tree, where, ci) ==
    LET ps == SortPaths(MatchingPaths(tree, where, ci))
    IN [i \in 1..Len(ps) |-> NodeAt(tree, ps[i])]

\* the same, kept to the nodes below the top-level fields root_keys names
ScopedDocOrderMatches(tree, where, ci, root_keys) ==
    LET named == { root_keys.kids[i].s : i \in 1..Len(root_keys.kids) }
        ps == SortPaths({ p \in MatchingPaths(tree, where, ci) :
                            p /= <<>> /\ tree.keys[p[1]] \in named })
    IN [i \in 1..Len(ps) |-> NodeAt(tree, ps[i])]

\* the named top-level fields that are present, searched one after the other
\* in the order root_keys gives them (a field named twice is searched twice)
RECURSIVE RootKeyOrderMatches(_, _, _, _, _)
RootKeyOrderMatches(tree, where, ci, root_keys, i) ==
    IF i > Len(root_keys.kids)
    THEN <<>>
    ELSE (IF Has(tree, root_keys.kids[i].s)
          THEN DocOrderMatches(Get(tree, root_keys.kids[i].s), where, ci)
          ELSE <<>>)
         \o RootKeyOrderMatches(tree, where, ci, root_keys, i + 1)

\* what a search returns for the sequence of matches it is specified to find
SearchReturns(matches, find_all, default) ==
    IF matches = <<>>
    THEN default
    ELSE IF find_all THEN List(matches) ELSE matches[1]

SearchDone == pc = "done" /\ req.op = "resolve_param"

RootKeysApply == req.root_keys.t /= "null" /\ data.t = "dict"

\* root_keys, when given, names no field twice
RootKeysNamedOnce ==
    \A i, j \in 1..Len(req.root_keys.kids) :
        req.root_keys.kids[i] = req.root_keys.kids[j] => i = j

\* C4 as stated: with or without root_keys, find_all=true returns the matching
\* mapping nodes (of the part of the tree that is searched) in depth-first
\* pre-order, siblings in insertion/list order; find_all=false returns the first
\* of that sequence; with no match both return the default.
C4_AsStated ==
    SearchDone /\ RootKeysNamedOnce =>
        result = SearchReturns(IF RootKeysApply
                          THEN ScopedDocOrderMatches(data, req.where,
                                   req.case_insensitive, req.root_keys)
                          ELSE DocOrderMatches(data, req.where, req.case_insensitive),
                          req.find_all, req.default)

\* C4 amended: without root_keys (or when the input is no mapping) the sequence
\* is the matching mapping nodes of the whole tree in depth-first pre-order;
\* with root_keys it is the concatenation, in root_keys order, of the pre-order
\* sequences of the named top-level fields that are present.  find_all=true
\* returns that sequence, find_all=false its first element, and both return
\* the default when it is empty.
C4_SearchOrder ==
    SearchDone =>
        result = SearchReturns(IF RootKeysApply
                          THEN RootKeyOrderMatches(data, req.where,
                                   req.case_insensitive, req.root_keys, 1)
                          ELSE DocOrderMatches(data, req.where, req.case_insensitive),
                          req.find_all, req.default)

\* a find_all search under two root keys that returns a matching node, its
\* matching descendant and a matching sibling subtree
C4_Witness ==
    /\ SearchDone
    /\ req.find_all
    /\ req.root_keys = List(<<Str("a"), Str("b")>>)
    /\ result.t = "list"
    /\ Len(result.kids) = 3
    /\ Get(result.kids[1], "sub") = result.kids[2]

-----------------------------------------------------------------------------
(* Sensor Alias Table and the two sensor lookups                            *)

\* SENSOR_KEYS_MAP.get(name, []): the ordered aliases of a canonical name
SENSOR_KEYS_MAP(name) ==
    CASE name = "battery_discharge_current" ->
            <<"bt_eybond_read_29", "Battery Current", "bt_discharge_current">>
      [] name = "output_priority_option" ->
            <<"bse_eybond_ctrl_49", "bse_output_source_priority">>
      [] name = "battery_active_power"     -> <<"bt_active_power">>
      [] name = "battery_charging_current" -> <<"bt_charging_current">>
      [] name = "battery_charging_voltage" -> <<"bt_charging_voltage">>
      [] name = "battery_voltage"          -> <<"bt_battery_voltage">>
      [] OTHER -> <<>>

\* str(v) of a scalar (the generated caches and item keys hold scalars only)
PyStr(v) ==
    CASE v.t = "str"  -> v.s
      [] v.t = "num"  -> ToString(v.n)
      [] OTHER        -> "None"

\* (data.get('device_extra') or {}).get('ctrl_values') or {}
CtrlValues(snapshot) ==
    Or(Get(Or(Get(snapshot, "device_extra"), EmptyDict), "ctrl_values"), EmptyDict)

ById(tree, key) ==
    resolve_param(tree, Dict(<<"id">>, <<Str(key)>>), TRUE, FALSE, Null, Null)

ByPar(tree, key) ==
    resolve_param(tree, Dict(<<"par">>, <<Str(key)>>), TRUE, FALSE, Null, Null)

ByName(tree, key) ==
    resolve_param(tree, Dict(<<"name">>, <<Str(key)>>), TRUE, FALSE, Null, Null)

\* a buggy loop body: the par entry is consulted before the id entry
SimpleAliasParFirst(key, snapshot) ==
    CHOOSE out \in
      { IF /\ Truthy(res2)
           /\ ~PyEq(GetOr(res2, "status", Num(1)), Num(0))
           /\ Get(res2, "val").t /= "null"
        THEN Get(res2, "val")
        ELSE IF Truthy(res1) /\ Get(res1, "val").t /= "null"
             THEN Get(res1, "val")
             ELSE IF Has(cv, key) /\ Get(cv, key).t /= "null"
                  THEN Str(PyStr(Get(cv, key)))
                  ELSE Null :
        res1 \in {ById(snapshot, key)}, res2 \in {ByPar(snapshot, key)},
        cv \in {CtrlValues(snapshot)} } : TRUE

\* a buggy loop body: the status flag of the par entry is not looked at
SimpleAliasNoStatus(key, snapshot) ==
    CHOOSE out \in
      { IF Truthy(res1) /\ Get(res1, "val").t /= "null"
        THEN Get(res1, "val")
        ELSE IF Truthy(res2) /\ Get(res2, "val").t /= "null"
             THEN Get(res2, "val")
             ELSE IF Has(cv, key) /\ Get(cv, key).t /= "null"
                  THEN Str(PyStr(Get(cv, key)))
                  ELSE Null :
        res1 \in {ById(snapshot, key)}, res2 \in {ByPar(snapshot, key)},
        cv \in {CtrlValues(snapshot)} } : TRUE

\* the body of the for loop of get_sensor_value_simple for one alias:
\* the value it returns, or Null when the loop goes on to the next alias
SimpleAlias(key, snapshot) ==
    CHOOSE out \in
      { IF Truthy(res1) /\ Get(res1, "val").t /= "null"
        THEN Get(res1, "val")
        ELSE IF /\ Truthy(res2)
                /\ ~PyEq(GetOr(res2, "status", Num(1)), Num(0))
                /\ Get(res2, "val").t /= "null"
             THEN Get(res2, "val")
             ELSE IF Has(cv, key) /\ Get(cv, key).t /= "null"
                  THEN Str(PyStr(Get(cv, key)))
                  ELSE Null :
        res1 \in {ById(snapshot, key)}, res2 \in {ByPar(snapshot, key)},
        cv \in {CtrlValues(snapshot)} } : TRUE

\* one tier of one alias, as the loop body reads it
TierValue(key, snapshot, tier) ==
    CHOOSE out \in
      { CASE tier = 1 ->
               IF Truthy(res1) THEN Get(res1, "val") ELSE Null
          [] tier = 2 ->
               IF Truthy(res2) /\ ~PyEq(GetOr(res2, "status", Num(1)), Num(0))
               THEN Get(res2, "val") ELSE Null
          [] OTHER ->
               IF Has(cv, key) /\ Get(cv, key).t /= "null"
               THEN Str(PyStr(Get(cv, key))) ELSE Null :
        res1 \in {ById(snapshot, key)}, res2 \in {ByPar(snapshot, key)},
        cv \in {CtrlValues(snapshot)} } : TRUE

RECURSIVE TierPass(_, _, _, _)
TierPass(keys, i, snapshot, tier) ==
    IF i > Len(keys)
    THEN Null
    ELSE CHOOSE out \in
           { IF v.t /= "null" THEN v ELSE TierPass(keys, i + 1, snapshot, tier) :
             v \in {TierValue(keys[i], snapshot, tier)} } : TRUE

\* a buggy loop: one pass per tier over all the aliases (the id of every alias,
\* then every par, then the cache) instead of one pass per alias
SimpleLoopByTier(keys, i, snapshot) ==
    CHOOSE out \in
      { IF a.t /= "null" THEN a ELSE IF b.t /= "null" THEN b ELSE c :
        a \in {TierPass(keys, i, snapshot, 1)},
        b \in {TierPass(keys, i, snapshot, 2)},
        c \in {TierPass(keys, i, snapshot, 3)} } : TRUE

\* for key in keys: ... ; return None
RECURSIVE SimpleLoop(_, _, _)
SimpleLoop(keys, i, snapshot) ==
    IF i > Len(keys)
    THEN Null
    ELSE CHOOSE out \in
           { IF v.t /= "null" THEN v ELSE SimpleLoop(keys, i + 1, snapshot) :
             v \in {SimpleAlias(keys[i], snapshot)} } : TRUE

get_sensor_value_simple(name, snapshot) ==
    SimpleLoop(SENSOR_KEYS_MAP(name), 1, snapshot)

\* a buggy loop body: like the simple form, the entry form falls back on the
\* control-value cache
EntryAliasWithCache(key, snapshot) ==
    CHOOSE out \in
      { IF Truthy(res1) /\ Get(res1, "val").t /= "null"
        THEN List(<<Get(res1, "id"), Get(res1, "val"), Get(res1, "unit")>>)
        ELSE IF /\ Truthy(res2)
                /\ ~PyEq(GetOr(res2, "status", Num(1)), Num(0))
                /\ Get(res2, "val").t /= "null"
             THEN List(<<Get(res2, "par"), Get(res2, "val"), Get(res2, "unit")>>)
             ELSE IF Get(CtrlValues(snapshot), key).t /= "null"
                  THEN List(<<Str(key), Str(PyStr(Get(CtrlValues(snapshot), key))),
                              Null>>)
                  ELSE Null :
        res1 \in {ById(snapshot, key)}, res2 \in {ByPar(snapshot, key)} } : TRUE

\* the body of the for loop of get_sensor_value_simple_entry for one alias:
\* the tuple (matched key, value, unit) it returns, or Null when the loop goes
\* on to the next alias (by continue or by falling off the body)
EntryAlias(key, snapshot) ==
    CHOOSE out \in
      { IF Truthy(res1) /\ Get(res1, "val").t /= "null"
        THEN List(<<Get(res1, "id"), Get(res1, "val"), Get(res1, "unit")>>)
        ELSE IF /\ Truthy(res2)
                /\ ~PyEq(GetOr(res2, "status", Num(1)), Num(0))
                /\ Get(res2, "val").t /= "null"
             THEN List(<<Get(res2, "par"), Get(res2, "val"), Get(res2, "unit")>>)
             ELSE Null :
        res1 \in {ById(snapshot, key)}, res2 \in {ByPar(snapshot, key)} } : TRUE

RECURSIVE EntryLoop(_, _, _)
EntryLoop(keys, i, snapshot) ==
    IF i > Len(keys)
    THEN Null
    ELSE CHOOSE out \in
           { IF v.t /= "null" THEN v ELSE EntryLoop(keys, i + 1, snapshot) :
             v \in {EntryAlias(keys[i], snapshot)} } : TRUE

get_sensor_value_simple_entry(name, snapshot) ==
    EntryLoop(SENSOR_KEYS_MAP(name), 1, snapshot)

-----------------------------------------------------------------------------
(* Device snapshots and the calls of the two sensor lookups                 *)

\* marks a field a generated mapping does not carry
Absent == [t |-> "absent", s |-> "", n |-> 0, keys |-> <<>>, kids |-> <<>>]

\* the mapping with the given <<key, value>> pairs, Absent ones left out
RECURSIVE MkDict(_)
MkDict(pairs) ==
    IF pairs = <<>>
    THEN EmptyDict
    ELSE LET rest == MkDict(Tail(pairs))
         IN IF Head(pairs)[2] = Absent
            THEN rest
            ELSE Dict(<<Head(pairs)[1]>> \o rest.keys, <<Head(pairs)[2]>> \o rest.kids)

\* bound: telemetry entries in one snapshot
MaxEntries == 2

IdEntry(id, st, v) ==
    MkDict(<< <<"id", Str(id)>>, <<"status", st>>, <<"val", v>>,
              <<"unit", Str("A")>> >>)

ParEntry(par, st, v) ==
    MkDict(<< <<"par", Str(par)>>, <<"status", st>>, <<"val", v>> >>)

\* entries keyed by id (also in another letter case), by par (with and
\* without a status flag, valid and invalid), and by both
Entries ==
    { IdEntry("BT_EYBOND_READ_29", Absent, Null),
      IdEntry("BT_EYBOND_READ_29", Absent, Str("4.0")),
      IdEntry("BT_EYBOND_READ_29", Num(0), Str("1.0")),
      IdEntry("Battery Current", Absent, Str("4.0")),
      ParEntry("bt_eybond_read_29", Absent, Str("-3.2")),
      ParEntry("bt_eybond_read_29", Num(0), Str("-3.2")),
      ParEntry("bt_eybond_read_29", Num(1), Str("-3.2")),
      ParEntry("bt_eybond_read_29", Str("0"), Str("-3.2")),
      ParEntry("bt_eybond_read_29", Num(1), Null),
      ParEntry("Battery Current", Num(0), Str("2.5")),
      ParEntry("Battery Current", Num(1), Str("2.5")),
      MkDict(<< <<"id", Str("bt_eybond_read_29")>>, <<"par", Str("Battery Current")>>,
                <<"status", Num(0)>>, <<"val", Str("6.0")>> >>) }

CtrlValueCaches ==
    { Null,
      MkDict(<< <<"bt_eybond_read_29", Null>> >>),
      MkDict(<< <<"bt_eybond_read_29", Num(5)>> >>),
      MkDict(<< <<"bt_eybond_read_29", Num(5)>>, <<"Battery Current", Str("7")>> >>),
      MkDict(<< <<"Battery Current", Str("7")>> >>) }

DeviceExtras ==
    { Absent, Null }
    \cup { MkDict(<< <<"ctrl_values", c>> >>) : c \in CtrlValueCaches }

Snapshots ==
    { MkDict(<< <<"last_data",
                  Dict(<<"pars">>, <<Dict(<<"bt_">>, <<List(es)>>)>>)>>,
                <<"device_extra", x>> >>) :
        es \in SeqsUpTo(Entries, MaxEntries), x \in DeviceExtras }

SensorNames == {"battery_discharge_current", "no_such_sensor"}

CallGetSensorValueSimple ==
    /\ pc = "idle"
    /\ \E name \in SensorNames :
          /\ req' = [op |-> "get_sensor_value_simple", name |-> name]
          /\ result' = get_sensor_value_simple(name, data)
    /\ pc' = "done"
    /\ UNCHANGED <<data, ctrl_fields, device_data, collab, calls, caught>>

CallGetSensorValueSimpleEntry ==
    /\ pc = "idle"
    /\ \E name \in SensorNames :
          /\ req' = [op |-> "get_sensor_value_simple_entry", name |-> name]
          /\ result' = get_sensor_value_simple_entry(name, data)
    /\ pc' = "done"
    /\ UNCHANGED <<data, ctrl_fields, device_data, collab, calls, caught>>

InitSensor ==
    /\ data \in Snapshots
    /\ ctrl_fields = Null
    /\ device_data = EmptyDict
    /\ collab = AllBound
    /\ pc = "idle"
    /\ req = NoReq
    /\ result = Null
    /\ calls = <<>>
    /\ caught = <<>>

NextSensor == CallGetSensorValueSimple \/ CallGetSensorValueSimpleEntry \/ Return

SpecSensor == InitSensor /\ [][NextSensor]_vars

-----------------------------------------------------------------------------
(* The three sources of one alias, read off the snapshot                    *)

\* the val of the first node whose id is the alias (Null: none, or no val)
IdSource(alias) ==
    LET r == ById(data, alias) IN IF r.t = "dict" THEN Get(r, "val") ELSE Null

\* the first node whose par is the alias (Null: none)
ParNode(alias) == ByPar(data, alias)

StatusIsZero(node) == Has(node, "status") /\ Get(node, "status") = Num(0)

\* the val of that node when its status does not say invalid
ParSource(alias) ==
    IF ParNode(alias).t = "dict" /\ ~StatusIsZero(ParNode(alias))
    THEN Get(ParNode(alias), "val")
    ELSE Null

\* the entry of the control-value cache for the alias (Null: none)
CacheSource(alias) ==
    LET extra == Get(data, "device_extra")
    IN IF extra.t = "dict" /\ Get(extra, "ctrl_values").t = "dict"
       THEN Get(Get(extra, "ctrl_values"), alias)
       ELSE Null

CacheText(alias) ==
    IF CacheSource(alias).t = "num"
    THEN Str(ToString(CacheSource(alias).n))
    ELSE CacheSource(alias)

Yields(alias) ==
    \/ IdSource(alias) /= Null
    \/ ParSource(alias) /= Null
    \/ CacheSource(alias) /= Null

ReqKeys == SENSOR_KEYS_MAP(req.name)

SimpleDone == pc = "done" /\ req.op = "get_sensor_value_simple"

EntryDone == pc = "done" /\ req.op = "get_sensor_value_simple_entry"

\* no alias before the i-th gave the simple form a value
SimpleArrives(i) == \A j \in 1..(i - 1) : ~Yields(ReqKeys[j])

\* no alias before the i-th gave the entry form a value
EntryArrives(i) ==
    \A j \in 1..(i - 1) :
        IdSource(ReqKeys[j]) = Null /\ ParSource(ReqKeys[j]) = Null

\* C1: for the alias the simple form is at, the sources apply in the order
\* id -> par -> cache: a non-null val of the id node is returned whatever the
\* par node and the cache hold; the par node's val only when the id source gave
\* nothing; the cache value, as a string, only when both gave nothing.
C1_SourceOrder ==
    SimpleDone =>
        \A i \in 1..Len(ReqKeys) :
            SimpleArrives(i) =>
                LET a == ReqKeys[i]
                IN /\ IdSource(a) /= Null => result = IdSource(a)
                   /\ IdSource(a) = Null /\ ParSource(a) /= Null
                         => result = ParSource(a)
                   /\ IdSource(a) = Null /\ ParSource(a) = Null
                         /\ CacheSource(a) /= Null
                         => result = CacheText(a)

\* the id node, a valid par node and the cache of the first alias hold three
\* different values, and the id node's is returned
C1_Witness ==
    /\ SimpleDone
    /\ Len(ReqKeys) > 0
    /\ IdSource(ReqKeys[1]) /= Null
    /\ ParSource(ReqKeys[1]) /= Null
    /\ CacheSource(ReqKeys[1]) /= Null
    /\ ParSource(ReqKeys[1]) /= IdSource(ReqKeys[1])
    /\ CacheText(ReqKeys[1]) /= IdSource(ReqKeys[1])
    /\ result = IdSource(ReqKeys[1])

\* C2: the result is a value of the earliest alias any of whose three sources
\* yields one, whatever later aliases hold (also an id node); it is null when
\* no alias yields.
C2_AliasOrder ==
    SimpleDone =>
        IF \E i \in 1..Len(ReqKeys) : Yields(ReqKeys[i])
        THEN LET i == CHOOSE k \in 1..Len(ReqKeys) :
                         Yields(ReqKeys[k]) /\ SimpleArrives(k)
                 a == ReqKeys[i]
             IN result \in ({IdSource(a), ParSource(a), CacheText(a)} \ {Null})
        ELSE result = Null

\* the first alias yields only through the cache, the second has an id node
\* with a value, and the cache value of the first is returned
C2_Witness ==
    /\ SimpleDone
    /\ Len(ReqKeys) >= 2
    /\ IdSource(ReqKeys[1]) = Null
    /\ ParSource(ReqKeys[1]) = Null
    /\ CacheSource(ReqKeys[1]) /= Null
    /\ IdSource(ReqKeys[2]) /= Null
    /\ IdSource(ReqKeys[2]) /= CacheText(ReqKeys[1])
    /\ result = CacheText(ReqKeys[1])

\* C3: in both forms, when the par tier of an alias is reached (the id source
\* gave nothing) and the par node found has status 0, its val is not used: the
\* simple form goes on with the cache of the same alias and then the next
\* alias, the entry form with the next alias; a par node whose status is
\* absent or anything but 0, with a non-null val, is returned.
C3_StatusZeroSkipped ==
    /\ SimpleDone =>
          \A i \in 1..Len(ReqKeys) :
              LET a == ReqKeys[i]
                  p == ParNode(a)
              IN SimpleArrives(i) /\ IdSource(a) = Null /\ p.t = "dict" =>
                    /\ StatusIsZero(p) =>
                          result = IF CacheSource(a) /= Null
                                   THEN CacheText(a)
                                   ELSE SimpleLoop(ReqKeys, i + 1, data)
                    /\ ~StatusIsZero(p) /\ Get(p, "val") /= Null =>
                          result = Get(p, "val")
    /\ EntryDone =>
          \A i \in 1..Len(ReqKeys) :
              LET a == ReqKeys[i]
                  p == ParNode(a)
              IN EntryArrives(i) /\ IdSource(a) = Null /\ p.t = "dict" =>
                    /\ StatusIsZero(p) =>
                          result = EntryLoop(ReqKeys, i + 1, data)
                    /\ ~StatusIsZero(p) /\ Get(p, "val") /= Null =>
                          result = List(<<Get(p, "par"), Get(p, "val"),
                                          Get(p, "unit")>>)

\* the par node of the first alias has status 0 and a val, the cache holds
\* another value for that alias, and the simple form returns the cache's
C3_Witness ==
    /\ SimpleDone
    /\ Len(ReqKeys) > 0
    /\ IdSource(ReqKeys[1]) = Null
    /\ ParNode(ReqKeys[1]).t = "dict"
    /\ StatusIsZero(ParNode(ReqKeys[1]))
    /\ Get(ParNode(ReqKeys[1]), "val") /= Null
    /\ CacheSource(ReqKeys[1]) /= Null
    /\ result = CacheText(ReqKeys[1])
    /\ result /= Get(ParNode(ReqKeys[1]), "val")

-----------------------------------------------------------------------------
(* Control Schema Resolver and the label canonicalizer                      *)

\* the spellings map_code knows (lines 180-189), upper-cased as its keys are
TableSpellings ==
    { "UTILITY FIRST", "UTILITY", "UTI",
      "SOLAR FIRST", "SOLAR", "SOL",
      "SBU FIRST", "SBU", "SUB",
      "SUF" }

\* the texts the canonicalizer is exercised on: the table's spellings, a code
\* the table does not know, and the empty text
Spellings == TableSpellings \cup { "ECO", "" }

\* w.lower() of a spelling
LowerCased(w) ==
    CASE w = "UTILITY FIRST" -> "utility first"
      [] w = "UTILITY"       -> "utility"
      [] w = "UTI"           -> "uti"
      [] w = "SOLAR FIRST"   -> "solar first"
      [] w = "SOLAR"         -> "solar"
      [] w = "SOL"           -> "sol"
      [] w = "SBU FIRST"     -> "sbu first"
      [] w = "SBU"           -> "sbu"
      [] w = "SUB"           -> "sub"
      [] w = "SUF"           -> "suf"
      [] w = "ECO"           -> "eco"
      [] OTHER                -> w

\* w.title() of a spelling
TitleCased(w) ==
    CASE w = "UTILITY FIRST" -> "Utility First"
      [] w = "UTILITY"       -> "Utility"
      [] w = "UTI"           -> "Uti"
      [] w = "SOLAR FIRST"   -> "Solar First"
      [] w = "SOLAR"         -> "Solar"
      [] w = "SOL"           -> "Sol"
      [] w = "SBU FIRST"     -> "Sbu First"
      [] w = "SBU"           -> "Sbu"
      [] w = "SUB"           -> "Sub"
      [] w = "SUF"           -> "Suf"
      [] w = "ECO"           -> "Eco"
      [] OTHER                -> w

Forms == { "upper", "lower", "title" }

Spelled(w, form) ==
    CASE form = "lower" -> LowerCased(w)
      [] form = "title" -> TitleCased(w)
      [] OTHER          -> w

CasedTexts == { Spelled(w, form) : w \in Spellings, form \in Forms }

\* leading and trailing whitespace
Pads == { "", " " }

PaddedTexts == { l \o t \o r : l \in Pads, r \in Pads, t \in CasedTexts }

\* str.strip() on the strings of the model
Strip(s) ==
    CASE s = " sub " -> "sub"
      [] s = " 3 "   -> "3"
      [] OTHER       ->
           IF s \in PaddedTexts
           THEN CHOOSE t \in CasedTexts : \E l \in Pads, r \in Pads : s = l \o t \o r
           ELSE s

\* str.upper() on the strings of the model
Upper(s) ==
    CASE s = "sub"           -> "SUB"
      [] s = "uti"           -> "UTI"
      [] s = "Utility"       -> "UTILITY"
      [] s = "Solar"         -> "SOLAR"
      [] s = "Utility first" -> "UTILITY FIRST"
      [] s = "junk"          -> "JUNK"
      [] s = "None"          -> "NONE"
      [] s = "xyz"           -> "XYZ"
      [] OTHER               ->
           IF s \in CasedTexts
           THEN CHOOSE w \in Spellings : \E form \in Forms : s = Spelled(w, form)
           ELSE s

\* a buggy loop body: the name field is tried before the id field
CtrlFieldAliasNameFirst(key, schema) ==
    CHOOSE out \in
      { IF Truthy(r2) /\ Truthy(Get(r2, "id")) THEN Str(PyStr(Get(r2, "id")))
        ELSE IF Truthy(r1) /\ Truthy(Get(r1, "id")) THEN Str(PyStr(Get(r1, "id")))
        ELSE IF Truthy(r3) /\ Truthy(Get(r3, "id")) THEN Str(PyStr(Get(r3, "id")))
        ELSE Null :
        r1 \in {ById(schema, key)}, r2 \in {ByName(schema, key)},
        r3 \in {ByPar(schema, key)} } : TRUE

\* the body of the for loop of resolve_ctrl_field_id for one alias: the id of
\* the descriptor found by id, else by name, else by par, as a string; Null
\* when the loop goes on to the next alias
CtrlFieldAlias(key, schema) ==
    CHOOSE out \in
      { IF Truthy(r1) /\ Truthy(Get(r1, "id")) THEN Str(PyStr(Get(r1, "id")))
        ELSE IF Truthy(r2) /\ Truthy(Get(r2, "id")) THEN Str(PyStr(Get(r2, "id")))
        ELSE IF Truthy(r3) /\ Truthy(Get(r3, "id")) THEN Str(PyStr(Get(r3, "id")))
        ELSE Null :
        r1 \in {ById(schema, key)}, r2 \in {ByName(schema, key)},
        r3 \in {ByPar(schema, key)} } : TRUE

RECURSIVE CtrlFieldLoop(_, _, _)
CtrlFieldLoop(keys, i, schema) ==
    IF i > Len(keys)
    THEN Null
    ELSE CHOOSE out \in
           { IF v.t /= "null" THEN v ELSE CtrlFieldLoop(keys, i + 1, schema) :
             v \in {CtrlFieldAlias(keys[i], schema)} } : TRUE

resolve_ctrl_field_id(schema, sensor_key) ==
    CtrlFieldLoop(SENSOR_KEYS_MAP(sensor_key), 1, schema)

\* map_code.get(s, s)
MapCode(s) ==
    CASE s \in {"UTILITY FIRST", "UTILITY", "UTI"} -> "Utility"
      [] s \in {"SOLAR FIRST", "SOLAR", "SOL"}     -> "Solar"
      [] s \in {"SBU FIRST", "SBU"}                -> "SBU"
      [] s = "SUB"                                 -> "SUB"
      [] s = "SUF"                                 -> "SUF"
      [] OTHER                                     -> s

\* a buggy canonicalizer: the text is looked up without being upper-cased
normalize_output_priority_label_cased(value) ==
    IF value.t = "null"
    THEN Null
    ELSE Str(MapCode(Strip(PyStr(value))))

\* None stays None; anything else is str()-ed, stripped, upper-cased, mapped
normalize_output_priority_label(value) ==
    IF value.t = "null"
    THEN Null
    ELSE Str(MapCode(Upper(Strip(PyStr(value)))))

-----------------------------------------------------------------------------
(* Write flow: the schema-driven attempt and the hardcoded per-model tables  *)

NoTarget == [kind |-> "none", param_id |-> "", value |-> "", exc |-> ""]

Target(param_id, value) ==
    [kind |-> "call", param_id |-> param_id, value |-> value, exc |-> ""]

Throws(exc) == [kind |-> "raise", param_id |-> "", value |-> "", exc |-> exc]

\* ctrl_field_entry.get("item") or []
ItemsOf(entry) == Or(Get(entry, "item"), List(<<>>))

\* what iterating the items and calling item.get on one of them raises, if the
\* value is no list of mappings: a number is not iterable; the elements of a
\* string or of a mapping, and any non-mapping list item, have no get
IterationError(items) == IF items.t = "num" THEN "TypeError" ELSE "AttributeError"

\* the first loop (lines 212-215): does an item canonicalize to SUB ?
\* "yes", "no", or the exception raised on the way
RECURSIVE HasSubScan(_, _)
HasSubScan(items, i) ==
    IF items.t /= "list"
    THEN IterationError(items)
    ELSE IF i > Len(items.kids)
         THEN "no"
         ELSE IF items.kids[i].t /= "dict"
              THEN "AttributeError"
              ELSE IF normalize_output_priority_label(Get(items.kids[i], "val"))
                        = Str("SUB")
                   THEN "yes"
                   ELSE HasSubScan(items, i + 1)

\* a buggy second loop: an accepted item without a key is passed over
\* (continue) instead of ending the scan (break)
RECURSIVE WriteScanSkipsNullKey(_, _, _, _)
WriteScanSkipsNullKey(items, i, wanted_candidates, param_id) ==
    IF items.t /= "list"
    THEN Throws(IterationError(items))
    ELSE IF i > Len(items.kids)
         THEN NoTarget
         ELSE IF items.kids[i].t /= "dict"
              THEN Throws("AttributeError")
              ELSE IF normalize_output_priority_label(Get(items.kids[i], "val"))
                        \notin wanted_candidates
                      \/ Get(items.kids[i], "key").t = "null"
                   THEN WriteScanSkipsNullKey(items, i + 1, wanted_candidates,
                                              param_id)
                   ELSE Target(param_id, PyStr(Get(items.kids[i], "key")))

\* the second loop (lines 218-224): the first item whose canonical label is
\* accepted decides: no key ends the scan, a key is written
RECURSIVE WriteScan(_, _, _, _)
WriteScan(items, i, wanted_candidates, param_id) ==
    IF items.t /= "list"
    THEN Throws(IterationError(items))
    ELSE IF i > Len(items.kids)
         THEN NoTarget
         ELSE IF items.kids[i].t /= "dict"
              THEN Throws("AttributeError")
              ELSE IF normalize_output_priority_label(Get(items.kids[i], "val"))
                        \notin wanted_candidates
                   THEN WriteScan(items, i + 1, wanted_candidates, param_id)
                   ELSE IF Get(items.kids[i], "key").t = "null"
                        THEN NoTarget
                        ELSE Target(param_id, PyStr(Get(items.kids[i], "key")))

\* a buggy candidate list: Utility is accepted for SUB also when the schema
\* has an item for SUB
WantedCandidatesAlwaysUtility(wanted, has_sub) ==
    IF wanted = Str("SUB") THEN {wanted, Str("Utility")} ELSE {wanted}

\* wanted_candidates (lines 209-217)
WantedCandidates(wanted, has_sub) ==
    IF wanted = Str("SUB") /\ has_sub = "no"
    THEN {wanted, Str("Utility")}
    ELSE {wanted}

\* lines 205-224 up to the await: the collaborator call to make, nothing, or
\* the exception raised
SchemaAttempt(schema, value) ==
    CHOOSE out \in
      { IF ~Truthy(param_id)
        THEN NoTarget
        ELSE CHOOSE out2 \in
               { IF has_sub \notin {"yes", "no"}
                 THEN Throws(has_sub)
                 ELSE WriteScan(items, 1, WantedCandidates(wanted, has_sub),
                                param_id.s) :
                 items \in {ItemsOf(Or(ById(schema, param_id.s), EmptyDict))},
                 wanted \in {normalize_output_priority_label(value)},
                 has_sub \in
                   { IF normalize_output_priority_label(value) = Str("SUB")
                     THEN HasSubScan(ItemsOf(Or(ById(schema, param_id.s),
                                                EmptyDict)), 1)
                     ELSE "no" } } : TRUE :
        param_id \in {resolve_ctrl_field_id(schema, "output_priority_option")} } : TRUE

\* the three map_param_value tables (lines 229-234, 242-247, 255-261)
MapParamValue(devcode, label) ==
    CASE devcode = 2341 ->
            (CASE label \in {"Utility", "SUB"} -> "0"
               [] label = "Solar"              -> "1"
               [] label = "SBU"                -> "2"
               [] OTHER                        -> "")
      [] devcode = 2428 ->
            (CASE label \in {"Utility", "SUB"} -> "12336"
               [] label = "Solar"              -> "12337"
               [] label = "SBU"                -> "12338"
               [] OTHER                        -> "")
      [] devcode = 2376 ->
            (CASE label = "Utility" -> "0"
               [] label = "Solar"   -> "1"
               [] label = "SBU"     -> "2"
               [] label = "SUB"     -> "3"
               [] label = "SUF"     -> "4"
               [] OTHER             -> "")
      [] OTHER -> ""

\* the param_id each case sets (lines 240, 253, 267)
HardcodedParamId(devcode) ==
    CASE devcode = 2341 -> "los_output_source_priority"
      [] devcode = 2428 -> "bse_output_source_priority"
      [] devcode = 2376 -> "bse_eybond_ctrl_49"
      [] OTHER          -> ""

\* a buggy dispatch: the label is canonicalized before the table lookup
HardcodedTargetCanonical(device, value) ==
    IF ~Has(device, "devcode")
    THEN Throws("KeyError")
    ELSE LET devcode == Get(device, "devcode")
             label   == normalize_output_priority_label(value).s
         IN IF devcode.t /= "num" \/ MapParamValue(devcode.n, label) = ""
            THEN NoTarget
            ELSE Target(HardcodedParamId(devcode.n), MapParamValue(devcode.n, label))

\* lines 227-271 up to the await: match device_data['devcode'], the table
\* lookup by the label as given, and the call to make (or none)
HardcodedTarget(device, value) ==
    IF ~Has(device, "devcode")
    THEN Throws("KeyError")
    ELSE LET devcode == Get(device, "devcode")
         IN IF devcode.t /= "num" \/ value.t /= "str"
               \/ MapParamValue(devcode.n, value.s) = ""
            THEN NoTarget
            ELSE Target(HardcodedParamId(devcode.n), MapParamValue(devcode.n, value.s))

-----------------------------------------------------------------------------
(* Read flow and direct-command flow: the parts around the await            *)

\* str(int(float(s))) when float(s) is an integer, on the strings of the model
IntegerText(s) ==
    CASE s = "0.0" -> "0"
      [] s = "3.0" -> "3"
      [] OTHER     -> s

\* _normalize_key (lines 277-287)
_normalize_key(value) ==
    IF value.t = "null" THEN Null ELSE Str(IntegerText(Strip(PyStr(value))))

\* a buggy lookup: the device's dictionary is never consulted
ItemLabelUnmapped(items, i, raw_u) == raw_u

\* item_key_to_val.get(raw_u, raw_u) for the dictionary lines 294-301 build:
\* the label of the last item with that key; items that are no mappings are
\* passed over by the except clause
RECURSIVE ItemLabel(_, _, _)
ItemLabel(items, i, raw_u) ==
    IF items.t /= "list" \/ i < 1
    THEN raw_u
    ELSE IF items.kids[i].t = "dict"
            /\ Upper(Strip(PyStr(Get(items.kids[i], "key")))) = raw_u
         THEN Upper(Strip(PyStr(Get(items.kids[i], "val"))))
         ELSE ItemLabel(items, i - 1, raw_u)

\* a buggy read: the raw value is looked up without _normalize_key
ReadResultRawKey(items, answer) ==
    LET raw == IF answer.t = "dict" THEN Get(answer, "val") ELSE Null
    IN IF raw.t = "null"
       THEN Null
       ELSE normalize_output_priority_label(
                Str(ItemLabel(items, Len(items.kids),
                              Upper(Strip(PyStr(raw))))))

\* lines 304-316: from the collaborator's answer to the value returned
ReadResult(items, answer) ==
    LET raw == IF answer.t = "dict" THEN Get(answer, "val") ELSE Null
    IN IF raw.t = "null"
       THEN Null
       ELSE normalize_output_priority_label(
                Str(ItemLabel(items, Len(items.kids),
                              Upper(Strip(_normalize_key(raw).s)))))

\* get_command_hex(cmd_name)
get_command_hex(cmd_name) == IF cmd_name = "QPIGS" THEN "5150494753b7a90d" ELSE ""

\* decode_direct_response(cmd_name, dat)
decode_direct_response(cmd_name, dat) ==
    Dict(<<"cmd", "decoded">>, <<Str(cmd_name), dat>>)

-----------------------------------------------------------------------------
(* The orchestrator's calls.  A call runs from its start to its first await *)
(* in one step; the collaborator then returns or raises in another.         *)

\* an exception that leaves the call
Raised(exc) == [t |-> "raise", s |-> exc, n |-> 0, keys |-> <<>>, kids |-> <<>>]

CallRec(fn, param_id, value, via) ==
    [fn |-> fn, param_id |-> param_id, value |-> value, via |-> via,
     state |-> "pending", answer |-> Null]

\* the last call of the sequence, once it has returned answer
Returned(cs, answer) ==
    [cs EXCEPT ![Len(cs)].state = "returned", ![Len(cs)].answer = answer]

\* the last call of the sequence, once it has raised
Failed(cs) == [cs EXCEPT ![Len(cs)].state = "failed"]

\* bound: items in the item list of a schema descriptor
MaxItems == 2

Item(key, val) == MkDict(<< <<"key", key>>, <<"val", val>> >>)

Items ==
    { Item(Str("0"), Str("UTI")),
      Item(Str("12336"), Str("Utility first")),
      Item(Str("1"), Str("Solar")),
      Item(Num(3), Str("SUB")),
      Item(Null, Str("SUB")),
      Item(Str("4"), Str("sub")),
      Str("junk") }

ItemValues ==
    { List(q) : q \in SeqsUpTo(Items, MaxItems) } \cup { Absent, Num(7) }

Descriptor(id, name, items) ==
    MkDict(<< <<"id", Str(id)>>, <<"name", name>>, <<"item", items>> >>)

Schema(descriptor) == Dict(<<"field">>, <<List(<<descriptor>>)>>)

\* schemas whose descriptor is found by id, by the second alias, by name (in
\* another letter case), or not at all
Schemas ==
    { Schema(Descriptor("bse_eybond_ctrl_49", Str("Output priority"), v)) :
        v \in ItemValues }
    \cup
    { Schema(Descriptor(d[1], d[2], v)) :
        d \in { <<"bse_output_source_priority", Absent>>,
                <<"sys_ctrl_17", Str("BSE_EYBOND_CTRL_49")>>,
                <<"bse_other", Absent>> },
        v \in { List(<<Item(Str("12336"), Str("Utility first"))>>),
                List(<<Item(Str("0"), Str("UTI")), Item(Num(3), Str("SUB"))>>),
                List(<<Str("junk"), Item(Num(3), Str("SUB"))>>) } }

DeviceDatas ==
    { Dict(<<"devcode">>, <<Num(c)>>) : c \in {2341, 2428, 2376, 1111} }
    \cup { EmptyDict }

NoneBound == [set |-> FALSE, get |-> FALSE, direct |-> FALSE]

Labels == { Str("SUB"), Str(" sub "), Str("Utility"), Str("Solar"), Str("SUF") }

WriteAnswers == { Dict(<<"err">>, <<Num(0)>>), Dict(<<"err">>, <<Num(1)>>) }

ReadAnswers ==
    { Dict(<<"val">>, <<Str("0")>>), Dict(<<"val">>, <<Str("0.0")>>),
      Dict(<<"val">>, <<Str("UTI")>>), Dict(<<"val">>, <<Num(3)>>),
      Dict(<<"val">>, <<Null>>), Null }

DirectAnswers == { Dict(<<"dat">>, <<Str("(230.0 50.0")>>), EmptyDict }

\* lines 227-271: the hardcoded path after the schema-driven attempt did not
\* write; prior holds the calls made so far
HardcodedPath(value, prior) ==
    LET h == HardcodedTarget(device_data, value)
    IN CASE h.kind = "call" ->
               /\ calls' = Append(prior, CallRec("set_ctrl_device_param",
                                                 h.param_id, h.value, "hardcoded"))
               /\ pc' = "await_hardcoded_write"
               /\ result' = Null
         [] h.kind = "raise" ->
               /\ calls' = prior
               /\ pc' = "done"
               /\ result' = Raised(h.exc)
         [] OTHER ->
               /\ calls' = prior
               /\ pc' = "done"
               /\ result' = Null

\* a buggy guard: the entry point refuses when any collaborator is missing
AnyIsNone(name) == ~collab.set \/ ~collab.get \/ ~collab.direct

\* the guard of an entry point (lines 201, 275, 320): its own collaborator,
\* the module global of that name, is None
IsNone(name) == ~collab[name]

\* set_inverter_output_priority from its start to its first await (or its end)
CallSetInverterOutputPriority ==
    /\ pc = "idle"
    /\ \E value \in Labels :
          /\ req' = [op |-> "set_inverter_output_priority", value |-> value]
          /\ IF IsNone("set")
             THEN /\ result' = Raised("RuntimeError")
                  /\ pc' = "done"
                  /\ UNCHANGED <<calls, caught>>
             ELSE LET a == IF ctrl_fields.t = "null"
                           THEN NoTarget
                           ELSE SchemaAttempt(ctrl_fields, value)
                  IN CASE a.kind = "call" ->
                            /\ calls' = <<CallRec("set_ctrl_device_param",
                                                  a.param_id, a.value, "schema")>>
                            /\ pc' = "await_schema_write"
                            /\ result' = Null
                            /\ UNCHANGED caught
                       [] a.kind = "raise" ->
                            /\ caught' = Append(caught, a.exc)
                            /\ HardcodedPath(value, calls)
                       [] OTHER ->
                            /\ UNCHANGED caught
                            /\ HardcodedPath(value, calls)
    /\ UNCHANGED <<data, ctrl_fields, device_data, collab>>

\* a buggy return: the answer of the schema-driven write is dropped and the
\* hardcoded path runs as well
SetCtrlDeviceParamReturnsAndFallsThrough ==
    /\ pc \in {"await_schema_write", "await_hardcoded_write"}
    /\ \E answer \in WriteAnswers :
          IF pc = "await_schema_write"
          THEN HardcodedPath(req.value, Returned(calls, answer))
          ELSE /\ result' = answer
               /\ calls' = Returned(calls, answer)
               /\ pc' = "done"
    /\ UNCHANGED <<data, ctrl_fields, device_data, collab, req, caught>>

\* a buggy return: the label written is recorded in the caller's device_data
SetCtrlDeviceParamReturnsAndRecords ==
    /\ pc \in {"await_schema_write", "await_hardcoded_write"}
    /\ \E answer \in WriteAnswers :
          /\ result' = answer
          /\ calls' = Returned(calls, answer)
    /\ pc' = "done"
    /\ device_data' = Dict(device_data.keys \o <<"output_priority">>,
                           device_data.kids \o <<req.value>>)
    /\ UNCHANGED <<data, ctrl_fields, collab, req, caught>>

\* set_ctrl_device_param answers: the answer is what the call returns
SetCtrlDeviceParamReturns ==
    /\ pc \in {"await_schema_write", "await_hardcoded_write"}
    /\ \E answer \in WriteAnswers :
          /\ result' = answer
          /\ calls' = Returned(calls, answer)
    /\ pc' = "done"
    /\ UNCHANGED <<data, ctrl_fields, device_data, collab, req, caught>>

\* a buggy handler: the failure of the schema-driven write leaves the call
SchemaWriteRaisesAndPropagates ==
    /\ pc = "await_schema_write"
    /\ calls' = Failed(calls)
    /\ result' = Raised("CollaboratorError")
    /\ pc' = "done"
    /\ UNCHANGED <<data, ctrl_fields, device_data, collab, req, caught>>

\* set_ctrl_device_param raises inside the try block: except Exception: pass,
\* and the hardcoded path runs
SchemaWriteRaises ==
    /\ pc = "await_schema_write"
    /\ caught' = Append(caught, "CollaboratorError")
    /\ HardcodedPath(req.value, Failed(calls))
    /\ UNCHANGED <<data, ctrl_fields, device_data, collab, req>>

\* set_ctrl_device_param raises on line 271: nothing catches it
HardcodedWriteRaises ==
    /\ pc = "await_hardcoded_write"
    /\ calls' = Failed(calls)
    /\ result' = Raised("CollaboratorError")
    /\ pc' = "done"
    /\ UNCHANGED <<data, ctrl_fields, device_data, collab, req, caught>>

\* get_inverter_output_priority from its start to its await (or its end)
CallGetInverterOutputPriority ==
    /\ pc = "idle"
    /\ req' = [op |-> "get_inverter_output_priority"]
    /\ IF IsNone("get")
       THEN /\ result' = Raised("RuntimeError")
            /\ pc' = "done"
            /\ UNCHANGED calls
       ELSE LET param_id == resolve_ctrl_field_id(ctrl_fields, "output_priority_option")
                items    == ItemsOf(Or(ById(ctrl_fields, param_id.s), EmptyDict))
            IN CASE param_id.t = "null" ->
                      /\ result' = Null
                      /\ pc' = "done"
                      /\ UNCHANGED calls
                 [] param_id.t /= "null" /\ items.t = "num" ->
                      /\ result' = Raised("TypeError")
                      /\ pc' = "done"
                      /\ UNCHANGED calls
                 [] OTHER ->
                      /\ calls' = <<CallRec("get_device_ctrl_value", param_id.s,
                                            "", "read")>>
                      /\ pc' = "await_read"
                      /\ result' = Null
    /\ UNCHANGED <<data, ctrl_fields, device_data, collab, caught>>

GetDeviceCtrlValueReturns ==
    /\ pc = "await_read"
    /\ \E answer \in ReadAnswers :
          /\ result' = ReadResult(
                           ItemsOf(Or(ById(ctrl_fields, calls[1].param_id),
                                      EmptyDict)),
                           answer)
          /\ calls' = Returned(calls, answer)
    /\ pc' = "done"
    /\ UNCHANGED <<data, ctrl_fields, device_data, collab, req, caught>>

GetDeviceCtrlValueRaises ==
    /\ pc = "await_read"
    /\ calls' = Failed(calls)
    /\ result' = Raised("CollaboratorError")
    /\ pc' = "done"
    /\ UNCHANGED <<data, ctrl_fields, device_data, collab, req, caught>>

\* get_direct_data from its start to its await
CallGetDirectData ==
    /\ pc = "idle"
    /\ req' = [op |-> "get_direct_data", cmd_name |-> "QPIGS"]
    /\ IF IsNone("direct")
       THEN /\ result' = Raised("RuntimeError")
            /\ pc' = "done"
            /\ UNCHANGED calls
       ELSE /\ calls' = <<CallRec("send_device_direct_command",
                                  get_command_hex("QPIGS"), "", "direct")>>
            /\ pc' = "await_direct"
            /\ result' = Null
    /\ UNCHANGED <<data, ctrl_fields, device_data, collab, caught>>

SendDeviceDirectCommandReturns ==
    /\ pc = "await_direct"
    /\ \E answer \in DirectAnswers :
          /\ result' = IF Has(answer, "dat")
                       THEN decode_direct_response(req.cmd_name, Get(answer, "dat"))
                       ELSE Raised("KeyError")
          /\ calls' = Returned(calls, answer)
    /\ pc' = "done"
    /\ UNCHANGED <<data, ctrl_fields, device_data, collab, req, caught>>

SendDeviceDirectCommandRaises ==
    /\ pc = "await_direct"
    /\ calls' = Failed(calls)
    /\ result' = Raised("CollaboratorError")
    /\ pc' = "done"
    /\ UNCHANGED <<data, ctrl_fields, device_data, collab, req, caught>>

\* the import of lines 6-11 binds the three collaborators or none of them
Init ==
    /\ data = EmptyDict
    /\ ctrl_fields \in Schemas \cup {Null}
    /\ device_data \in DeviceDatas
    /\ collab \in {AllBound, NoneBound}
    /\ pc = "idle"
    /\ req = NoReq
    /\ result = Null
    /\ calls = <<>>
    /\ caught = <<>>

Next ==
    \/ CallSetInverterOutputPriority
    \/ SetCtrlDeviceParamReturns
    \/ SchemaWriteRaises
    \/ HardcodedWriteRaises
    \/ CallGetInverterOutputPriority
    \/ GetDeviceCtrlValueReturns
    \/ GetDeviceCtrlValueRaises
    \/ CallGetDirectData
    \/ SendDeviceDirectCommandReturns
    \/ SendDeviceDirectCommandRaises
    \/ Return

Spec == Init /\ [][Next]_vars

\* a caller binds one collaborator by assigning the module global, as the
\* tests do with their fakes
Patch ==
    /\ pc = "idle"
    /\ \E name \in {"set", "get", "direct"} :
          /\ ~collab[name]
          /\ collab' = [collab EXCEPT ![name] = TRUE]
    /\ UNCHANGED <<data, ctrl_fields, device_data, pc, req, result, calls, caught>>

InitPatched ==
    /\ data = EmptyDict
    /\ ctrl_fields \in
          { Null,
            Schema(Descriptor("bse_eybond_ctrl_49", Str("Output priority"),
                              List(<<Item(Str("0"), Str("UTI")),
                                     Item(Num(3), Str("SUB"))>>))) }
    /\ device_data \in { Dict(<<"devcode">>, <<Num(c)>>) : c \in {2376, 1111} }
    /\ collab \in {AllBound, NoneBound}
    /\ pc = "idle"
    /\ req = NoReq
    /\ result = Null
    /\ calls = <<>>
    /\ caught = <<>>

NextPatched == Patch \/ Next

SpecPatched == InitPatched /\ [][NextPatched]_vars


-----------------------------------------------------------------------------
(* Claims about the write flow.  The item the schema-driven attempt must     *)
(* use is described here from the schema and the request alone.              *)

InWrite == pc /= "idle" /\ req.op = "set_inverter_output_priority"

WriteDone == pc = "done" /\ req.op = "set_inverter_output_priority"

\* the control id the live schema resolves for output_priority_option
ParamId == resolve_ctrl_field_id(ctrl_fields, "output_priority_option")

SchemaResolves == ctrl_fields.t /= "null" /\ ParamId.t /= "null"

\* the item list of the resolved descriptor (empty when it is no list)
DescItems ==
    LET items == Get(Or(ById(ctrl_fields, ParamId.s), EmptyDict), "item")
    IN IF items.t = "list" THEN items.kids ELSE <<>>

\* the canonical label of item i; Null for an item that is no mapping
Label(items, i) ==
    IF items[i].t = "dict"
    THEN normalize_output_priority_label(Get(items[i], "val"))
    ELSE Null

ItemKey(items, i) == IF items[i].t = "dict" THEN Get(items[i], "key") ELSE Null

WellFormedBefore(items, i) == \A j \in 1..(i - 1) : items[j].t = "dict"

Wanted == normalize_output_priority_label(req.value)

\* i is the first item, in item order, whose label is one of labels
FirstLabelled(items, i, labels) ==
    /\ i \in DOMAIN items
    /\ Label(items, i) \in labels
    /\ \A j \in 1..(i - 1) : Label(items, j) \notin labels

\* i is the first item that carries the label and a key
FirstKeyed(items, i, label) ==
    /\ i \in DOMAIN items
    /\ Label(items, i) = label /\ ItemKey(items, i).t /= "null"
    /\ \A j \in 1..(i - 1) :
          ~(Label(items, j) = label /\ ItemKey(items, j).t /= "null")

\* the first call of the execution is the schema-driven write of key to id
SchemaWriteOf(id, key) ==
    /\ calls /= <<>>
    /\ calls[1].fn = "set_ctrl_device_param"
    /\ calls[1].via = "schema"
    /\ calls[1].param_id = id.s
    /\ calls[1].value = PyStr(key)

HardcodedCalls == SelectSeq(calls, LAMBDA c : c.via = "hardcoded")

\* C5 as stated: when the id resolves and some item carries the desired label
\* and a non-null key, the write uses the FIRST such item (first among the
\* items with a key), its answer is returned and the hardcoded table is not
\* used.  Read on well-formed item lists and a collaborator that answers.
C5_AsStated ==
    ( WriteDone /\ collab.set /\ SchemaResolves ) =>
       LET items == DescItems
       IN ( /\ \A j \in DOMAIN items : items[j].t = "dict"
            /\ \A k \in DOMAIN calls : calls[k].state = "returned"
            /\ \E i \in DOMAIN items : FirstKeyed(items, i, Wanted) )
          => \E i \in DOMAIN items :
                /\ FirstKeyed(items, i, Wanted)
                /\ SchemaWriteOf(ParamId, ItemKey(items, i))
                /\ Len(calls) = 1
                /\ result = calls[1].answer

\* C5: when the id resolves and an item carries the desired label, the FIRST
\* item with that label (no malformed item before it) decides: with a key,
\* the collaborator is called with the resolved id and str(key), and once it
\* answers, the answer is returned and nothing else is called; without a key
\* no schema-driven write is made, whatever the later items hold, and only the
\* hardcoded path can call.
C5_FirstAcceptedItemDecides ==
    ( InWrite /\ collab.set /\ SchemaResolves ) =>
       LET items == DescItems
       IN \A i \in DOMAIN items :
             ( FirstLabelled(items, i, {Wanted}) /\ WellFormedBefore(items, i) )
             => IF ItemKey(items, i).t /= "null"
                THEN /\ SchemaWriteOf(ParamId, ItemKey(items, i))
                     /\ calls[1].state = "returned"
                          => /\ pc = "done"
                             /\ Len(calls) = 1
                             /\ result = calls[1].answer
                ELSE \A k \in DOMAIN calls : calls[k].via = "hardcoded"

\* model 2376, label SUB, a schema that lists SUB second: id
\* bse_eybond_ctrl_49, value "3", answer returned
C5_Witness ==
    /\ WriteDone
    /\ Get(device_data, "devcode") = Num(2376)
    /\ req.value = Str("SUB")
    /\ Len(DescItems) = 2
    /\ FirstLabelled(DescItems, 2, {Str("SUB")})
    /\ Len(calls) = 1
    /\ calls[1].via = "schema"
    /\ calls[1].param_id = "bse_eybond_ctrl_49"
    /\ calls[1].value = "3"
    /\ calls[1].state = "returned"
    /\ result = calls[1].answer

NoSubItem(items) == \A j \in DOMAIN items : Label(items, j) /= Str("SUB")

\* the labels a schema-driven write may target: the desired label, and
\* Utility as well when SUB is desired and no item carries SUB
Accepted(items) ==
    IF Wanted = Str("SUB") /\ NoSubItem(items)
    THEN {Wanted, Str("Utility")}
    ELSE {Wanted}

\* C6: a schema-driven write targets the first item whose label is accepted,
\* where Utility is accepted only if SUB is desired and no item carries SUB;
\* and when SUB is desired, no item carries SUB and the first Utility item of
\* a well-formed list has a key, that item is written.
C6_SubSubstitution ==
    InWrite =>
       LET items == DescItems
       IN /\ ( calls /= <<>> /\ calls[1].via = "schema" )
             => \E i \in DOMAIN items :
                   /\ FirstLabelled(items, i, Accepted(items))
                   /\ Label(items, i) = Str("Utility") =>
                         \/ Wanted = Str("Utility")
                         \/ Wanted = Str("SUB") /\ NoSubItem(items)
                   /\ SchemaWriteOf(ParamId, ItemKey(items, i))
          /\ ( /\ collab.set /\ SchemaResolves
               /\ Wanted = Str("SUB")
               /\ NoSubItem(items)
               /\ \A j \in DOMAIN items : items[j].t = "dict" )
             => \A i \in DOMAIN items :
                   ( /\ FirstLabelled(items, i, {Str("Utility")})
                     /\ ItemKey(items, i).t /= "null" )
                   => SchemaWriteOf(ParamId, ItemKey(items, i))

\* model 2428, label SUB, a schema without SUB: id
\* bse_output_source_priority, value "12336"
C6_Witness ==
    /\ WriteDone
    /\ Get(device_data, "devcode") = Num(2428)
    /\ req.value = Str("SUB")
    /\ NoSubItem(DescItems)
    /\ Len(calls) = 1
    /\ calls[1].via = "schema"
    /\ calls[1].param_id = "bse_output_source_priority"
    /\ calls[1].value = "12336"
    /\ calls[1].state = "returned"
    /\ result = calls[1].answer

\* an exception was raised during the schema-driven attempt
SchemaAttemptRaised ==
    \/ caught /= <<>>
    \/ calls /= <<>> /\ calls[1].via = "schema" /\ calls[1].state = "failed"

\* C7: an exception raised during the schema-driven attempt never reaches the
\* caller: the hardcoded dispatch runs, and what the caller gets is its
\* outcome: nothing, its own exception, or the answer or failure of its call.
C7_SchemaErrorsSwallowed ==
    ( InWrite /\ SchemaAttemptRaised )
    => LET h == HardcodedTarget(device_data, req.value)
       IN CASE h.kind = "none" ->
                  /\ pc = "done"
                  /\ result = Null
                  /\ HardcodedCalls = <<>>
            [] h.kind = "raise" ->
                  /\ pc = "done"
                  /\ result = Raised(h.exc)
                  /\ HardcodedCalls = <<>>
            [] OTHER ->
                  /\ Len(HardcodedCalls) = 1
                  /\ calls[Len(calls)].via = "hardcoded"
                  /\ calls[Len(calls)].param_id = h.param_id
                  /\ calls[Len(calls)].value = h.value
                  /\ CASE calls[Len(calls)].state = "pending" ->
                             pc = "await_hardcoded_write"
                       [] calls[Len(calls)].state = "returned" ->
                             pc = "done" /\ result = calls[Len(calls)].answer
                       [] OTHER ->
                             pc = "done" /\ result = Raised("CollaboratorError")

\* the collaborator failed in the schema-driven write, and the caller got the
\* answer of the hardcoded write
C7_Witness ==
    /\ WriteDone
    /\ caught = <<"CollaboratorError">>
    /\ Len(calls) = 2
    /\ calls[1].via = "schema" /\ calls[1].state = "failed"
    /\ calls[2].via = "hardcoded" /\ calls[2].state = "returned"
    /\ result = calls[2].answer

InReadOrWrite ==
    req.op \in {"get_inverter_output_priority", "set_inverter_output_priority"}

\* C8 as stated: one orchestration call issues at most one collaborator call,
\* also when the collaborator fails
C8_AsStated == InReadOrWrite => Len(calls) <= 1

\* C8: at most one collaborator call is in flight at any time; the read flow
\* issues at most one; the write flow issues at most two, the second being the
\* hardcoded write, started only after the schema-driven write has failed.
C8_OneCallAtATime ==
    InReadOrWrite =>
       /\ \A k \in 1..(Len(calls) - 1) : calls[k].state /= "pending"
       /\ req.op = "get_inverter_output_priority" => Len(calls) <= 1
       /\ Len(calls) <= 2
       /\ Len(calls) = 2 =>
             /\ calls[1].via = "schema" /\ calls[1].state = "failed"
             /\ calls[2].via = "hardcoded"

\* the second call of a write is in flight
C8_Witness ==
    /\ pc = "await_hardcoded_write"
    /\ Len(calls) = 2
    /\ calls[1].state = "failed"
    /\ calls[2].state = "pending"

InEntryPoint ==
    /\ pc /= "idle"
    /\ req.op \in {"set_inverter_output_priority", "get_inverter_output_priority",
                   "get_direct_data"}

Refused == pc = "done" /\ result = Raised("RuntimeError") /\ calls = <<>>

\* the collaborator an entry point itself uses
OwnCollaborator ==
    CASE req.op = "set_inverter_output_priority" -> "set"
      [] req.op = "get_inverter_output_priority" -> "get"
      [] OTHER                                   -> "direct"

\* C9 as stated: if any one of the three collaborators is unavailable, every
\* entry point fails at once with the configuration error and calls nothing
C9_AsStated == ( InEntryPoint /\ collab /= AllBound ) => Refused

\* C9: an entry point fails at once with the configuration error, calling
\* nothing, exactly when the collaborator it uses itself is unavailable; the
\* other two are not looked at.
C9_OwnCollaboratorOnly ==
    InEntryPoint =>
       IF collab[OwnCollaborator]
       THEN result /= Raised("RuntimeError")
       ELSE Refused

\* the read flow ran to its answer with only the control-read collaborator
\* bound
C9_Witness ==
    /\ pc = "done"
    /\ req.op = "get_inverter_output_priority"
    /\ collab = [set |-> FALSE, get |-> TRUE, direct |-> FALSE]
    /\ Len(calls) = 1
    /\ calls[1].state = "returned"

\* the schema-driven attempt did not write: it made no call, or its call failed
SchemaDidNotWrite ==
    ~( calls /= <<>> /\ calls[1].via = "schema" /\ calls[1].state /= "failed" )

\* C10: when the schema-driven attempt did not write, the outcome depends on
\* devcode and the label as given only: no entry for them in the tables means
\* no hardcoded call, nothing returned and nothing raised; an entry means one
\* call with that model's parameter id and the table's value, whose answer is
\* returned.
C10_HardcodedPath ==
    ( /\ InWrite /\ collab.set /\ SchemaDidNotWrite
      /\ Has(device_data, "devcode") )
    => LET code == Get(device_data, "devcode").n
           pv   == MapParamValue(code, req.value.s)
       IN IF pv = ""
          THEN /\ pc = "done"
               /\ result = Null
               /\ HardcodedCalls = <<>>
          ELSE /\ Len(HardcodedCalls) = 1
               /\ HardcodedCalls[1].fn = "set_ctrl_device_param"
               /\ HardcodedCalls[1].param_id = HardcodedParamId(code)
               /\ HardcodedCalls[1].value = pv
               /\ HardcodedCalls[1].state = "returned"
                     => pc = "done" /\ result = HardcodedCalls[1].answer

\* an unrecognized model and no schema: nothing called, nothing returned
C10_Witness ==
    /\ WriteDone
    /\ collab.set
    /\ ctrl_fields = Null
    /\ Get(device_data, "devcode") = Num(1111)
    /\ calls = <<>>
    /\ result = Null

-----------------------------------------------------------------------------
(* Claims about the read flow                                                *)

InRead == pc /= "idle" /\ req.op = "get_inverter_output_priority"

\* n of the claim: the text of raw, an integer-valued numeric text as its
\* integer text, upper-cased
ReadKey(raw) == Upper(IntegerText(Strip(PyStr(raw))))

\* the upper-cased key and label of item i, as the device's dictionary has them
UpperKey(items, i) == Upper(Strip(PyStr(Get(items[i], "key"))))

UpperLabel(items, i) == Upper(Strip(PyStr(Get(items[i], "val"))))

\* the val of the collaborator's answer (Null when the answer is no mapping)
AnswerVal(answer) == IF answer.t = "dict" THEN Get(answer, "val") ELSE Null

\* C11: the read flow returns null without a call when the control id does
\* not resolve, and null when the collaborator's val is null; otherwise it
\* returns canon(D.get(n(raw), n(raw))): the canonical form of the label of an
\* item whose upper-cased key is n(raw), or of n(raw) itself when no item has
\* that key.
C11_ReadFlow ==
    ( InRead /\ collab.get ) =>
       /\ ParamId.t = "null" => ( pc = "done" /\ result = Null /\ calls = <<>> )
       /\ ( calls /= <<>> /\ calls[1].state = "returned" ) =>
             LET raw   == AnswerVal(calls[1].answer)
                 items == DescItems
                 hits  == { i \in DOMAIN items :
                              /\ items[i].t = "dict"
                              /\ UpperKey(items, i) = ReadKey(raw) }
             IN /\ calls[1].fn = "get_device_ctrl_value"
                /\ calls[1].param_id = ParamId.s
                /\ IF raw.t = "null"
                   THEN result = Null
                   ELSE IF hits = {}
                        THEN result = normalize_output_priority_label(
                                          Str(ReadKey(raw)))
                        ELSE \E i \in hits :
                                result = normalize_output_priority_label(
                                             Str(UpperLabel(items, i)))

\* the id resolves to bse_eybond_ctrl_49, the item with key 0 is the utility
\* entry, the collaborator returns "0.0": the flow returns "Utility"
C11_Witness ==
    /\ pc = "done"
    /\ req.op = "get_inverter_output_priority"
    /\ ParamId = Str("bse_eybond_ctrl_49")
    /\ \E i \in DOMAIN DescItems :
          DescItems[i] = Item(Str("0"), Str("UTI"))
    /\ Len(calls) = 1
    /\ calls[1].state = "returned"
    /\ calls[1].answer = Dict(<<"val">>, <<Str("0.0")>>)
    /\ result = Str("Utility")

-----------------------------------------------------------------------------
(* Domain normalizers for the battery currents and powers.  A float is held  *)
(* as its number of tenths; the generated voltages are whole numbers, so a   *)
(* product of a current and a voltage is again a number of tenths.           *)

\* the texts float() parses, with the value in tenths
FloatTexts ==
    { "-3.2", "4.0", "2.5", "1.0", "6.0", "7", "5", "0", "48", "-48", "54",
      "10.5", "-2.0", "1.5", "-1.5", "-300", "200" }

FloatText(s) ==
    CASE s = "-3.2" -> -32
      [] s = "4.0"  -> 40
      [] s = "2.5"  -> 25
      [] s = "1.0"  -> 10
      [] s = "6.0"  -> 60
      [] s = "7"    -> 70
      [] s = "5"    -> 50
      [] s = "0"    -> 0
      [] s = "48"   -> 480
      [] s = "-48"  -> -480
      [] s = "54"   -> 540
      [] s = "10.5" -> 105
      [] s = "-2.0" -> -20
      [] s = "1.5"  -> 15
      [] s = "-1.5" -> -15
      [] s = "-300" -> -3000
      [] s = "200"  -> 2000

\* safe_float: float(val), or default for None and for what float() refuses
safe_float(val, default) ==
    CASE val.t = "null"                        -> default
      [] val.t = "num"                         -> val.n * 10
      [] val.t = "str" /\ val.s \in FloatTexts -> FloatText(val.s)
      [] OTHER                                 -> default

\* a * b for floats in tenths
FMul(a, b) == (a * b) \div 10

\* abs(a)
FAbs(a) == IF a < 0 THEN 0 - a ELSE a

\* a buggy clamp: the raw charging current is returned, negative or not
resolve_battery_charging_current_unclamped(snapshot) ==
    safe_float(get_sensor_value_simple("battery_charging_current", snapshot), 0)

resolve_battery_charging_current(snapshot) ==
    CHOOSE out \in
      { IF v > 0 THEN v ELSE 0 :
        v \in {safe_float(get_sensor_value_simple("battery_charging_current",
                                                  snapshot), 0)} } : TRUE

resolve_battery_charging_voltage(snapshot) ==
    safe_float(get_sensor_value_simple("battery_charging_voltage", snapshot), 0)

\* a buggy sign rule: the magnitude is returned for every matched key
resolve_battery_discharge_current_abs(snapshot) ==
    CHOOSE out \in
      { IF ~Truthy(found)
        THEN 0
        ELSE CHOOSE out2 \in
               { IF value < 0 THEN FAbs(value) ELSE 0 :
                 value \in {safe_float(found.kids[2], 0)} } : TRUE :
        found \in {get_sensor_value_simple_entry("battery_discharge_current",
                                                 snapshot)} } : TRUE

resolve_battery_discharge_current(snapshot) ==
    CHOOSE out \in
      { IF ~Truthy(found)
        THEN 0
        ELSE CHOOSE out2 \in
               { IF \/ found.kids[1] = Str("bt_eybond_read_29")
                    \/ found.kids[1] = Str("Battery Current")
                 THEN IF value < 0 THEN FAbs(value) ELSE 0
                 ELSE value :
                 value \in {safe_float(found.kids[2], 0)} } : TRUE :
        found \in {get_sensor_value_simple_entry("battery_discharge_current",
                                                 snapshot)} } : TRUE

resolve_battery_voltage(snapshot) ==
    safe_float(get_sensor_value_simple("battery_voltage", snapshot), 0)

\* a buggy scaling: the unit is not looked at
ActivePowerValueUnscaled(found) == safe_float(found.kids[2], 0)

\* value after lines 48-50 (64-66): safe_float(raw_val), times 1000 for kW
ActivePowerValue(found) ==
    IF found.kids[3] = Str("kW")
    THEN safe_float(found.kids[2], 0) * 1000
    ELSE safe_float(found.kids[2], 0)

\* a buggy fallback: the first reading is used whatever it is
FOrFirst(a, b) == a

\* a or b for floats
FOr(a, b) == IF a /= 0 THEN a ELSE b

resolve_battery_charging_power(snapshot) ==
    CHOOSE out \in
      { IF Truthy(found)
        THEN CHOOSE out2 \in
               { IF value > 0 THEN value ELSE 0 :
                 value \in {ActivePowerValue(found)} } : TRUE
        ELSE FMul(resolve_battery_charging_current(snapshot),
                  FOr(resolve_battery_charging_voltage(snapshot),
                      resolve_battery_voltage(snapshot))) :
        found \in {get_sensor_value_simple_entry("battery_active_power",
                                                 snapshot)} } : TRUE

resolve_battery_discharge_power(snapshot) ==
    CHOOSE out \in
      { IF Truthy(found)
        THEN CHOOSE out2 \in
               { IF value < 0 THEN FAbs(value) ELSE 0 :
                 value \in {ActivePowerValue(found)} } : TRUE
        ELSE FMul(resolve_battery_discharge_current(snapshot),
                  resolve_battery_voltage(snapshot)) :
        found \in {get_sensor_value_simple_entry("battery_active_power",
                                                 snapshot)} } : TRUE

\* a float result, in tenths
Float(tenths) == [t |-> "float", s |-> "", n |-> tenths, keys |-> <<>>, kids |-> <<>>]

Reading(id, v, unit) ==
    MkDict(<< <<"id", Str(id)>>, <<"val", v>>, <<"unit", unit>> >>)

ActivePowerEntries ==
    { Absent,
      Reading("bt_active_power", Str("1.5"), Str("kW")),
      Reading("bt_active_power", Str("-1.5"), Str("kW")),
      Reading("bt_active_power", Str("-300"), Str("W")),
      Reading("bt_active_power", Str("200"), Absent),
      Reading("bt_active_power", Num(0), Str("kW")),
      Reading("bt_active_power", Str("1.5"), Str("kw")),
      Reading("bt_active_power", Str("n/a"), Str("W")) }

ChargingCurrentEntries ==
    { Absent,
      Reading("bt_charging_current", Str("10.5"), Str("A")),
      Reading("bt_charging_current", Str("-2.0"), Str("A")) }

ChargingVoltageEntries ==
    { Absent,
      Reading("bt_charging_voltage", Str("54"), Str("V")),
      Reading("bt_charging_voltage", Str("0"), Str("V")) }

BatteryVoltageEntries ==
    { Absent,
      Reading("bt_battery_voltage", Str("48"), Str("V")),
      Reading("bt_battery_voltage", Str("-48"), Str("V")) }

DischargeCurrentEntries ==
    { Absent,
      Reading("bt_eybond_read_29", Str("-3.2"), Str("A")),
      Reading("bt_eybond_read_29", Str("4.0"), Str("A")),
      Reading("BT_EYBOND_READ_29", Str("-3.2"), Str("A")),
      ParEntry("Battery Current", Num(1), Str("-3.2")),
      Reading("bt_discharge_current", Str("-3.2"), Str("A")),
      Reading("bt_discharge_current", Str("2.5"), Str("A")) }

\* a battery voltage that only the control-value cache holds
VoltageCaches ==
    { Absent, MkDict(<< <<"ctrl_values",
                          MkDict(<< <<"bt_battery_voltage", Num(48)>> >>)>> >>) }

PowerSnapshots ==
    { MkDict(<< <<"last_data",
                  Dict(<<"pars">>,
                       <<Dict(<<"bt_">>,
                              <<List(SelectSeq(<<p, c, v, b, d>>,
                                               LAMBDA e : e /= Absent))>>)>>)>>,
                <<"device_extra", x>> >>) :
        p \in ActivePowerEntries, c \in ChargingCurrentEntries,
        v \in ChargingVoltageEntries, b \in BatteryVoltageEntries,
        d \in DischargeCurrentEntries, x \in VoltageCaches }

CallResolveBatteryDischargeCurrent ==
    /\ pc = "idle"
    /\ req' = [op |-> "resolve_battery_discharge_current"]
    /\ result' = Float(resolve_battery_discharge_current(data))
    /\ pc' = "done"
    /\ UNCHANGED <<data, ctrl_fields, device_data, collab, calls, caught>>

CallResolveBatteryChargingPower ==
    /\ pc = "idle"
    /\ req' = [op |-> "resolve_battery_charging_power"]
    /\ result' = Float(resolve_battery_charging_power(data))
    /\ pc' = "done"
    /\ UNCHANGED <<data, ctrl_fields, device_data, collab, calls, caught>>

CallResolveBatteryDischargePower ==
    /\ pc = "idle"
    /\ req' = [op |-> "resolve_battery_discharge_power"]
    /\ result' = Float(resolve_battery_discharge_power(data))
    /\ pc' = "done"
    /\ UNCHANGED <<data, ctrl_fields, device_data, collab, calls, caught>>

InitPower ==
    /\ data \in PowerSnapshots
    /\ ctrl_fields = Null
    /\ device_data = EmptyDict
    /\ collab = AllBound
    /\ pc = "idle"
    /\ req = NoReq
    /\ result = Null
    /\ calls = <<>>
    /\ caught = <<>>

NextPower ==
    \/ CallResolveBatteryDischargeCurrent
    \/ CallResolveBatteryChargingPower
    \/ CallResolveBatteryDischargePower
    \/ Return

SpecPower == InitPower /\ [][NextPower]_vars

-----------------------------------------------------------------------------
(* Claims about the battery normalizers                                      *)

\* the entry the extended sensor lookup resolves for a canonical name
Found(name) == get_sensor_value_simple_entry(name, data)

Resolves(name) == Found(name) /= Null

MatchedKey(name) == Found(name).kids[1]

\* the raw value of the resolved entry as a float (tenths)
RawValue(name) == safe_float(Found(name).kids[2], 0)

MatchedUnit(name) == Found(name).kids[3]

DischargeCurrentDone ==
    pc = "done" /\ req.op = "resolve_battery_discharge_current"

ChargingPowerDone == pc = "done" /\ req.op = "resolve_battery_charging_power"

DischargePowerDone == pc = "done" /\ req.op = "resolve_battery_discharge_power"

\* w of the claim: the raw value, times 1000 when the unit is exactly "kW"
ScaledPower ==
    IF MatchedUnit("battery_active_power") = Str("kW")
    THEN 1000 * RawValue("battery_active_power")
    ELSE RawValue("battery_active_power")

\* C13: when a battery_active_power entry resolves, the charging power is w
\* if w > 0 and 0 otherwise, the discharge power is |w| if w < 0 and 0
\* otherwise, where w is the raw value scaled by 1000 for the unit "kW";
\* currents and voltages play no part.
C13_DirectPower ==
    Resolves("battery_active_power") =>
       /\ ChargingPowerDone =>
             result = Float(IF ScaledPower > 0 THEN ScaledPower ELSE 0)
       /\ DischargePowerDone =>
             result = Float(IF ScaledPower < 0 THEN 0 - ScaledPower ELSE 0)

\* 1.5 kW of active power, with a charging current and voltages at hand: the
\* charging power is 1500
C13_Witness ==
    /\ ChargingPowerDone
    /\ Resolves("battery_active_power")
    /\ Found("battery_active_power").kids[2] = Str("1.5")
    /\ MatchedUnit("battery_active_power") = Str("kW")
    /\ resolve_battery_charging_current(data) > 0
    /\ resolve_battery_voltage(data) > 0
    /\ result = Float(15000)

-----------------------------------------------------------------------------
(* Calls of resolve_ctrl_field_id on schemas of two descriptors             *)

CtrlField(id, name, par) ==
    MkDict(<< <<"id", id>>, <<"name", name>>, <<"par", par>> >>)

\* descriptors an alias finds by id (also in another letter case), by name or
\* by par, with a usable id, no id, an empty or zero id, a numeric id
CtrlFields ==
    { CtrlField(Str("bse_eybond_ctrl_49"), Str("Output priority"), Absent),
      CtrlField(Str("BSE_EYBOND_CTRL_49"), Absent, Absent),
      CtrlField(Str("sys_17"), Str("bse_eybond_ctrl_49"), Absent),
      CtrlField(Str("sys_18"), Absent, Str("bse_eybond_ctrl_49")),
      CtrlField(Str("bse_output_source_priority"), Absent, Absent),
      CtrlField(Absent, Str("bse_eybond_ctrl_49"), Absent),
      CtrlField(Num(0), Str("bse_eybond_ctrl_49"), Absent),
      CtrlField(Str(""), Absent, Str("bse_eybond_ctrl_49")),
      CtrlField(Num(49), Str("bse_output_source_priority"), Absent),
      CtrlField(Str("other"), Str("Other"), Absent) }

CtrlSchemas ==
    { Dict(<<"field">>, <<List(<<d1, d2>>)>>) : d1 \in CtrlFields, d2 \in CtrlFields }
    \cup { Dict(<<"field">>, <<List(<<d>>)>>) : d \in CtrlFields }
    \cup { EmptyDict }

CallResolveCtrlFieldId ==
    /\ pc = "idle"
    /\ \E sensor_key \in {"output_priority_option", "no_such_sensor"} :
          /\ req' = [op |-> "resolve_ctrl_field_id", name |-> sensor_key]
          /\ result' = resolve_ctrl_field_id(ctrl_fields, sensor_key)
    /\ pc' = "done"
    /\ UNCHANGED <<data, ctrl_fields, device_data, collab, calls, caught>>

InitCtrlField ==
    /\ data = EmptyDict
    /\ ctrl_fields \in CtrlSchemas
    /\ device_data = EmptyDict
    /\ collab = AllBound
    /\ pc = "idle"
    /\ req = NoReq
    /\ result = Null
    /\ calls = <<>>
    /\ caught = <<>>

NextCtrlField == CallResolveCtrlFieldId \/ Return

SpecCtrlField == InitCtrlField /\ [][NextCtrlField]_vars

CtrlFieldDone == pc = "done" /\ req.op = "resolve_ctrl_field_id"

\* the k-th attempt: alias (k-1) \div 3 + 1 on the field id, name or par
AttemptAlias(k) == ReqKeys[((k - 1) \div 3) + 1]

\* the descriptor the k-th attempt matches (Null: none)
AttemptNode(k) ==
    CASE (k - 1) % 3 = 0 -> ById(ctrl_fields, AttemptAlias(k))
      [] (k - 1) % 3 = 1 -> ByName(ctrl_fields, AttemptAlias(k))
      [] OTHER           -> ByPar(ctrl_fields, AttemptAlias(k))

Attempts == 1..(3 * Len(ReqKeys))

\* C15 as stated: the result is the id of the first attempt, in the order
\* alias by alias and id, name, par within an alias, that matches a descriptor
\* whose id is non-null; null when there is none
C15_AsStated ==
    CtrlFieldDone =>
       LET good == { k \in Attempts :
                       /\ AttemptNode(k).t = "dict"
                       /\ Get(AttemptNode(k), "id") /= Null }
       IN IF good = {}
          THEN result = Null
          ELSE \E k \in good :
                  /\ \A j \in good : k <= j
                  /\ result = Str(PyStr(Get(AttemptNode(k), "id")))

\* C15: the result is the id, as a string, of the first attempt, in the order
\* alias by alias and id, name, par within an alias, that matches a descriptor
\* with a usable id (not null, not empty, not zero); null when there is none.
C15_FieldOrder ==
    CtrlFieldDone =>
       LET good == { k \in Attempts :
                       /\ AttemptNode(k).t = "dict"
                       /\ Truthy(Get(AttemptNode(k), "id")) }
       IN IF good = {}
          THEN result = Null
          ELSE \E k \in good :
                  /\ \A j \in good : k <= j
                  /\ result = Str(PyStr(Get(AttemptNode(k), "id")))

\* the first alias matches one descriptor by id and another, which has an id
\* of its own, by name: the id of the one matched by id is returned
C15_Witness ==
    /\ CtrlFieldDone
    /\ Len(ReqKeys) = 2
    /\ AttemptNode(1).t = "dict"
    /\ AttemptNode(2).t = "dict"
    /\ AttemptNode(2) /= AttemptNode(1)
    /\ Truthy(Get(AttemptNode(2), "id"))
    /\ result = Get(AttemptNode(1), "id")
    /\ result /= Str(PyStr(Get(AttemptNode(2), "id")))

-----------------------------------------------------------------------------
(* All resolution operations on one set of inputs                            *)

\* a tree, a sensor snapshot and a power snapshot
AllData ==
    { EmptyDict,
      Dict(<<"a", "b">>, <<IdNode("Battery_Current", 1), Str("Other")>>),
      MkDict(<< <<"last_data",
                  Dict(<<"pars">>,
                       <<Dict(<<"bt_">>,
                              <<List(<<ParEntry("bt_eybond_read_29", Num(0),
                                                Str("-3.2")),
                                       IdEntry("Battery Current", Absent,
                                               Str("4.0"))>>)>>)>>)>>,
                <<"device_extra",
                  MkDict(<< <<"ctrl_values",
                              MkDict(<< <<"bt_eybond_read_29", Num(5)>> >>)>> >>)>> >>),
      MkDict(<< <<"last_data",
                  Dict(<<"pars">>,
                       <<Dict(<<"bt_">>,
                              <<List(<<Reading("bt_charging_current", Str("10.5"),
                                               Str("A")),
                                       Reading("bt_battery_voltage", Str("48"),
                                               Str("V"))>>)>>)>>)>> >>) }

InitAll ==
    /\ data \in AllData
    /\ ctrl_fields \in
          { Null,
            Schema(Descriptor("bse_eybond_ctrl_49", Str("Output priority"),
                              List(<<Item(Str("0"), Str("UTI")),
                                     Item(Num(3), Str("SUB"))>>))),
            Schema(Descriptor("bse_eybond_ctrl_49", Str("Output priority"),
                              List(<<Str("junk")>>))) }
    /\ device_data \in { Dict(<<"devcode">>, <<Num(c)>>) : c \in {2376, 1111} }
    /\ collab = AllBound
    /\ pc = "idle"
    /\ req = NoReq
    /\ result = Null
    /\ calls = <<>>
    /\ caught = <<>>

NextAll ==
    \/ CallResolveParam
    \/ CallGetSensorValueSimple
    \/ CallGetSensorValueSimpleEntry
    \/ CallResolveCtrlFieldId
    \/ CallResolveBatteryDischargeCurrent
    \/ CallResolveBatteryChargingPower
    \/ CallResolveBatteryDischargePower
    \/ CallSetInverterOutputPriority
    \/ SetCtrlDeviceParamReturns
    \/ SchemaWriteRaises
    \/ HardcodedWriteRaises
    \/ CallGetInverterOutputPriority
    \/ GetDeviceCtrlValueReturns
    \/ GetDeviceCtrlValueRaises
    \/ Return

SpecAll == InitAll /\ [][NextAll]_vars

\* C14: no step of any resolution operation (the tree matcher, the two sensor
\* lookups, the control schema resolver, the normalizers, the read and write
\* flows) changes the snapshot, the control-field schema or the device
\* identity: they stay what they were through any sequence of calls.
C14_InputsUnchanged ==
    [][ /\ data' = data
        /\ ctrl_fields' = ctrl_fields
        /\ device_data' = device_data ]_vars

\* a write flow has run through the schema and the collaborator has answered
C14_Witness ==
    /\ WriteDone
    /\ ctrl_fields /= Null
    /\ Len(calls) = 1
    /\ calls[1].via = "schema"
    /\ calls[1].state = "returned"
    /\ Has(data, "last_data")

-----------------------------------------------------------------------------
(* The entry form against the simple form                                    *)

\* the sensor's value is in the control-value cache and nowhere else
OnlyInCache ==
    /\ \A i \in 1..Len(ReqKeys) :
          IdSource(ReqKeys[i]) = Null /\ ParSource(ReqKeys[i]) = Null
    /\ \E i \in 1..Len(ReqKeys) : CacheSource(ReqKeys[i]) /= Null

\* the first alias the cache holds a value for
FirstCached ==
    ReqKeys[CHOOSE i \in 1..Len(ReqKeys) :
               /\ CacheSource(ReqKeys[i]) /= Null
               /\ \A j \in 1..(i - 1) : CacheSource(ReqKeys[j]) = Null]

\* what the simple form returns for the name and snapshot of the call
SimpleValue == get_sensor_value_simple(req.name, data)

\* C16 as stated: a value only the cache holds is null for the entry form and
\* the cached text for the simple form; and whenever the entry form returns
\* (key, value, unit), the simple form returns that value
C16_AsStated ==
    /\ ( EntryDone /\ OnlyInCache ) => result = Null
    /\ ( SimpleDone /\ OnlyInCache ) => result = CacheText(FirstCached)
    /\ ( EntryDone /\ result /= Null ) => SimpleValue = result.kids[2]

\* the aliases before the one the entry form stopped at, for which the cache
\* holds a value
CachedBefore ==
    { j \in 1..Len(ReqKeys) :
        /\ EntryArrives(j + 1)
        /\ CacheSource(ReqKeys[j]) /= Null }

\* C16: a value only the cache holds is null for the entry form and the cached
\* text for the simple form; and when the entry form returns (key, value,
\* unit), the simple form returns that value unless the cache holds a value
\* for an alias that comes before the one the entry was found under: it then
\* returns the cached text of the first such alias.
C16_EntryIgnoresCache ==
    /\ ( EntryDone /\ OnlyInCache ) => result = Null
    /\ ( SimpleDone /\ OnlyInCache ) => result = CacheText(FirstCached)
    /\ ( EntryDone /\ result /= Null ) =>
          IF CachedBefore = {}
          THEN SimpleValue = result.kids[2]
          ELSE \E j \in CachedBefore :
                  /\ \A k \in CachedBefore : j <= k
                  /\ SimpleValue = CacheText(ReqKeys[j])

\* only the cache holds a value: the entry form returns null, the simple form
\* the cached text
C16_Witness ==
    /\ EntryDone
    /\ OnlyInCache
    /\ result = Null
    /\ SimpleValue = CacheText(FirstCached)
    /\ SimpleValue /= Null

-----------------------------------------------------------------------------
(* The current * voltage fallback of the power normalizers                   *)

\* the charging-specific voltage reading (Null: the snapshot has none)
ChargingVoltageReading == get_sensor_value_simple("battery_charging_voltage", data)

\* C17: when no battery_active_power entry resolves, the charging power is
\* the charging current (clamped to >= 0) times the charging-specific voltage
\* reading whenever the snapshot has that reading, and times the generic
\* battery voltage only when it has not; the discharge power is the discharge
\* current times the battery voltage.
C17_AsStated ==
    ~Resolves("battery_active_power") =>
       /\ ChargingPowerDone =>
             result = Float(FMul(resolve_battery_charging_current(data),
                                 IF ChargingVoltageReading /= Null
                                 THEN safe_float(ChargingVoltageReading, 0)
                                 ELSE resolve_battery_voltage(data)))
       /\ DischargePowerDone =>
             result = Float(FMul(resolve_battery_discharge_current(data),
                                 resolve_battery_voltage(data)))

\* C17: when no battery_active_power entry resolves, the charging power is
\* the charging current (clamped to >= 0) times the charging-specific voltage
\* when the snapshot has that reading and it is a number other than 0, and
\* times the generic battery voltage otherwise; the discharge power is the
\* discharge current times the battery voltage.
C17_Fallback ==
    ~Resolves("battery_active_power") =>
       /\ ChargingPowerDone =>
             /\ resolve_battery_charging_current(data) >= 0
             /\ result = Float(FMul(resolve_battery_charging_current(data),
                                    IF /\ ChargingVoltageReading /= Null
                                       /\ safe_float(ChargingVoltageReading, 0) /= 0
                                    THEN safe_float(ChargingVoltageReading, 0)
                                    ELSE resolve_battery_voltage(data)))
       /\ DischargePowerDone =>
             result = Float(FMul(resolve_battery_discharge_current(data),
                                 resolve_battery_voltage(data)))

\* no active power; 10.5 A of charging current, a charging voltage of 54 V
\* and a battery voltage of 48 V: the charging power is 567
C17_Witness ==
    /\ ChargingPowerDone
    /\ ~Resolves("battery_active_power")
    /\ resolve_battery_charging_current(data) = 105
    /\ ChargingVoltageReading = Str("54")
    /\ resolve_battery_voltage(data) = 480
    /\ result = Float(5670)

-----------------------------------------------------------------------------
(* The sign of the two power normalizers                                   *)

VoltagesNonNegative ==
    /\ resolve_battery_charging_voltage(data) >= 0
    /\ resolve_battery_voltage(data) >= 0

C19_AsStated ==
    ( VoltagesNonNegative /\ ( ChargingPowerDone \/ DischargePowerDone ) ) =>
        result.n >= 0

\* C19: in a snapshot whose resolved battery voltages are non-negative, the
\* charging power is >= 0, and the discharge power is >= 0 when it comes from
\* the direct active-power reading or when the resolved discharge current is
\* non-negative; a negative discharge current kept as it is gives a negative
\* discharge power.
C19_NonNegative ==
    VoltagesNonNegative =>
       /\ ChargingPowerDone => result.n >= 0
       /\ ( /\ DischargePowerDone
            /\ \/ Resolves("battery_active_power")
               \/ resolve_battery_discharge_current(data) >= 0 ) => result.n >= 0
       /\ ( /\ DischargePowerDone
            /\ ~Resolves("battery_active_power")
            /\ resolve_battery_discharge_current(data) < 0
            /\ resolve_battery_voltage(data) > 0 ) => result.n < 0

\* the fallback with a discharge current under its negative-only alias:
\* 3.2 A at 48 V is 153.6
C19_Witness ==
    /\ DischargePowerDone
    /\ VoltagesNonNegative
    /\ ~Resolves("battery_active_power")
    /\ Resolves("battery_discharge_current")
    /\ MatchedKey("battery_discharge_current") = Str("bt_eybond_read_29")
    /\ resolve_battery_discharge_current(data) = 32
    /\ resolve_battery_voltage(data) = 480
    /\ result = Float(1536)

-----------------------------------------------------------------------------
(* The label canonicalizer on its own                                      *)

\* the values normalize_output_priority_label is called on: every spelling in
\* every letter case with and without surrounding blanks, a number and None
LabelInputs ==
    { Str(text) : text \in PaddedTexts } \cup { Num(3), Null }

OnLabel(value, twice) ==
    [op |-> "normalize_output_priority_label", value |-> value, twice |-> twice]

CallNormalizeOutputPriorityLabel ==
    /\ pc = "idle"
    /\ \E value \in LabelInputs :
          /\ req' = OnLabel(value, FALSE)
          /\ result' = normalize_output_priority_label(value)
    /\ pc' = "done"
    /\ UNCHANGED <<data, ctrl_fields, device_data, collab, calls, caught>>

\* the canonicalizer applied to its own result
CallNormalizeOutputPriorityLabelAgain ==
    /\ pc = "done"
    /\ req.op = "normalize_output_priority_label"
    /\ ~req.twice
    /\ req' = OnLabel(req.value, TRUE)
    /\ result' = normalize_output_priority_label(result)
    /\ UNCHANGED <<pc, data, ctrl_fields, device_data, collab, calls, caught>>

InitLabel ==
    /\ data = Null
    /\ ctrl_fields = Null
    /\ device_data = EmptyDict
    /\ collab = AllBound
    /\ pc = "idle"
    /\ req = NoReq
    /\ result = Null
    /\ calls = <<>>
    /\ caught = <<>>

NextLabel ==
    \/ CallNormalizeOutputPriorityLabel
    \/ CallNormalizeOutputPriorityLabelAgain

SpecLabel == InitLabel /\ [][NextLabel]_vars

LabelDone == pc = "done" /\ req.op = "normalize_output_priority_label"

CanonicalLabels == { "Utility", "Solar", "SBU", "SUB", "SUF" }

\* the text of a spelling in a letter case between two pads
Written(l, w, form, r) == Str(l \o Spelled(w, form) \o r)

\* C20: for a non-null input, normalizing the result again changes nothing;
\* every other letter case and padding of the same spelling gives the same
\* result; a spelling of the table gives one of Utility, Solar, SBU, SUB, SUF;
\* any other input gives its text, trimmed and upper-cased.
C20_Canonicalizer ==
    ( LabelDone /\ req.value /= Null ) =>
       /\ req.twice => result = normalize_output_priority_label(req.value)
       /\ \A w \in Spellings :
             ( \E l \in Pads, r \in Pads, form \in Forms :
                  req.value = Written(l, w, form, r) ) =>
                /\ \A l \in Pads, r \in Pads, form \in Forms :
                      normalize_output_priority_label(Written(l, w, form, r))
                        = normalize_output_priority_label(req.value)
                /\ w \in TableSpellings => result.s \in CanonicalLabels
                /\ w \notin TableSpellings => result = Str(w)
       /\ req.value = Num(3) => result = Str("3")

\* " Utility first " in lower case normalized twice: Utility both times
C20_Witness ==
    /\ LabelDone
    /\ req.twice
    /\ req.value = Str(" utility first ")
    /\ result = Str("Utility")

-----------------------------------------------------------------------------
(* A schema-driven write followed by a read of what was written             *)

\* items whose keys read back as they were sent, and items whose keys do not:
\* the text of an integer-valued float, and keys that differ as values but
\* not as stripped, upper-cased strings
RoundTripItems ==
    { Item(Str("0"), Str("UTI")),
      Item(Str("3.0"), Str("Solar")),
      Item(Num(3), Str("SUB")),
      Item(Str("3"), Str("SUF")),
      Item(Str(" 3 "), Str("sub")),
      Item(Str("sub"), Str("Utility")) }

RoundTripSchemas ==
    { Schema(Descriptor("bse_eybond_ctrl_49", Str("Output priority"), List(q))) :
        q \in SeqsUpTo(RoundTripItems, MaxItems) }

\* get_inverter_output_priority called once the schema-driven write made by
\* set_inverter_output_priority has returned (lines 275-303)
CallGetInverterOutputPriorityAfterWrite ==
    /\ pc = "done"
    /\ req.op = "set_inverter_output_priority"
    /\ Len(calls) = 1
    /\ calls[1].via = "schema"
    /\ calls[1].state = "returned"
    /\ ~IsNone("get")
    /\ req' = [op |-> "get_inverter_output_priority", wrote |-> req.value]
    /\ calls' = Append(calls,
                       CallRec("get_device_ctrl_value",
                               resolve_ctrl_field_id(ctrl_fields,
                                                     "output_priority_option").s,
                               "", "read"))
    /\ pc' = "await_read_back"
    /\ result' = Null
    /\ UNCHANGED <<data, ctrl_fields, device_data, collab, caught>>

\* the device answers with the key it was sent (lines 303-316)
GetDeviceCtrlValueReturnsWritten ==
    /\ pc = "await_read_back"
    /\ LET answer == Dict(<<"val">>, <<Str(calls[1].value)>>)
       IN /\ result' = ReadResult(
                           ItemsOf(Or(ById(ctrl_fields, calls[2].param_id),
                                      EmptyDict)),
                           answer)
          /\ calls' = Returned(calls, answer)
    /\ pc' = "done"
    /\ UNCHANGED <<data, ctrl_fields, device_data, collab, req, caught>>

InitRoundTrip ==
    /\ data = EmptyDict
    /\ ctrl_fields \in RoundTripSchemas
    /\ device_data \in DeviceDatas
    /\ collab = AllBound
    /\ pc = "idle"
    /\ req = NoReq
    /\ result = Null
    /\ calls = <<>>
    /\ caught = <<>>

NextRoundTrip ==
    \/ CallSetInverterOutputPriority
    \/ SetCtrlDeviceParamReturns
    \/ SchemaWriteRaises
    \/ HardcodedWriteRaises
    \/ CallGetInverterOutputPriorityAfterWrite
    \/ GetDeviceCtrlValueReturnsWritten
    \/ Return

SpecRoundTrip == InitRoundTrip /\ [][NextRoundTrip]_vars

ReadBackDone ==
    /\ pc = "done"
    /\ Len(calls) = 2
    /\ req.op = "get_inverter_output_priority"

\* the label asked for, and the label the claim expects to read back
WroteLabel == normalize_output_priority_label(req.wrote)

ExpectedReadBack(items) ==
    IF WroteLabel = Str("SUB") /\ NoSubItem(items)
    THEN Str("Utility")
    ELSE WroteLabel

\* the keys are pairwise distinct as values
DistinctKeys(items) ==
    \A i \in DOMAIN items, j \in DOMAIN items :
        i /= j => ItemKey(items, i) /= ItemKey(items, j)

\* the keys are pairwise distinct as the read flow's dictionary holds them
DistinctUpperKeys(items) ==
    \A i \in DOMAIN items, j \in DOMAIN items :
        i /= j => UpperKey(items, i) /= UpperKey(items, j)

\* the read flow's integer normalization leaves the text of the key alone
ReadsAsSent(k) == IntegerText(Strip(k)) = Strip(k)

C18_AsStated ==
    ReadBackDone =>
       LET items == DescItems
       IN DistinctKeys(items) => result = ExpectedReadBack(items)

\* C18: when the item keys are pairwise distinct as stripped, upper-cased
\* strings and the key sent is not changed by the read flow's integer
\* normalization, a read that gets the sent key back returns the canonical
\* form of the desired label, or Utility when SUB was desired and no item
\* carries SUB.
C18_RoundTrip ==
    ReadBackDone =>
       LET items == DescItems
       IN ( DistinctUpperKeys(items) /\ ReadsAsSent(calls[1].value) ) =>
              result = ExpectedReadBack(items)

\* SUB asked of a schema without a SUB item: the Utility item's key "0" is
\* sent, and the read of "0" gives Utility
C18_Witness ==
    /\ ReadBackDone
    /\ DistinctUpperKeys(DescItems)
    /\ Len(DescItems) = 2
    /\ req.wrote = Str(" sub ")
    /\ NoSubItem(DescItems)
    /\ calls[1].value = "0"
    /\ result = Str("Utility")

====
